---- MODULE Spec2Model ----
(***************************************************************************)
(* A model of the host-independent core of s3o-blender-tools: the S3O      *)
(* piece tree (src/s3o.py, class S3OPiece), its binary codec (class S3O)   *)
(* and the triangulation pass.                                             *)
(*                                                                         *)
(* Python objects live in a heap: a piece tree is a sequence of piece      *)
(* records, piece 1 is the root, and `children` holds piece ids in         *)
(* declaration order.  An exception is the name of its Python class.       *)
(***************************************************************************)
EXTENDS Integers, Sequences, FiniteSets, TLC

VARIABLES
    tree,   \* the heap of S3OPiece objects (a sequence of piece records)
    s3o,    \* the S3O object of the last successful S3O.__init__, or NoS3O
    data,   \* the byte buffer handed to S3O.__init__ / returned by serialize
    err,    \* the exception the last operation raised, or NoError
    last,   \* the last operation: [op, piece]
    prev,   \* the operation before it
    pre     \* the heap as it was before the last operation

vars == <<tree, s3o, data, err, last, prev, pre>>

(***************************************************************************)
(* Bounds of the model.                                                    *)
(***************************************************************************)
MaxIdx == 8       \* longest index list of a piece of a one-piece tree
MaxTreeIdx == 4   \* most indices, over all pieces, of a tree of several pieces

NoError == "none"
NoOp == [op |-> "none", piece |-> 0]
NoS3O == [made |-> FALSE]

(***************************************************************************)
(* class S3OPiece.PrimitiveType(Enum).  Each member is written with a      *)
(* trailing comma (`Triangles = 0,`), so the member's .value is the        *)
(* one-element tuple (0,), not the int 0.  A member is modelled by its     *)
(* class and its number; an int read from a file has class "int".  As in   *)
(* Python, an Enum member never equals an int.                             *)
(***************************************************************************)
Triangles == [cls |-> "PrimitiveType", n |-> 0]
TriangleStrips == [cls |-> "PrimitiveType", n |-> 1]
Quads == [cls |-> "PrimitiveType", n |-> 2]
PrimitiveType == {Triangles, TriangleStrips, Quads}

RawInt(n) == [cls |-> "int", n |-> n]

(***************************************************************************)
(* S3OVertex(position, normal, tex_coords): a NamedTuple of three vectors. *)
(* Floats are float32 values, written as small integers.                   *)
(***************************************************************************)
S3OVertex(position, normal, tex_coords) == <<position, normal, tex_coords>>

\* The vertex list the pieces of the triangulation runs carry.
Vertices ==
    << S3OVertex(<<0, 0, 0>>, <<0, 1, 0>>, <<0, 0>>),
       S3OVertex(<<1, 0, 2>>, <<0, 0, 1>>, <<1, 1>>) >>

\* The end-of-strip marker of a triangle-strip index list (0xffffffff).
EndOfStrip == 0 - 1

\* self.indices[a:b] of Python: the elements at 0-based positions a .. b-1,
\* cut at the end of the list.
Slice(s, a, b) ==
    LET hi == IF b < Len(s) THEN b ELSE Len(s)
    IN  IF a >= hi THEN << >> ELSE [k \in 1..(hi - a) |-> s[a + k]]

RECURSIVE Flatten(_)
Flatten(ss) == IF ss = << >> THEN << >> ELSE Head(ss) \o Flatten(Tail(ss))

(***************************************************************************)
(* S3OPiece.triangulate_faces, the TriangleStrips case (lines 422-436).    *)
(* new_idx: for i in range(idx_len - 2), if no index of indices[i:i + 2]   *)
(* is -1, extend by indices[i:i + 2].                                      *)
(***************************************************************************)
StripNewIdx(indices) ==
    LET idx_len == Len(indices)
        win(i) == Slice(indices, i, i + 2)
        keep(i) == \A k \in 1..Len(win(i)) : win(i)[k] # EndOfStrip
    IN  Flatten([j \in 1..(idx_len - 2) |->
                    IF keep(j - 1) THEN win(j - 1) ELSE << >>])

(***************************************************************************)
(* The Quads case (lines 444-447): for i in range(0, idx_len, 4), extend   *)
(* by indices[i:i + 2], then by indices[i + n] for n in [0, 2, 3].         *)
(***************************************************************************)
\* a plausible slip: the conventional split (a, b, c), (a, c, d)
QuadNewIdx_Conventional(indices) ==
    LET idx_len == Len(indices)
    IN  Flatten([g \in 1..(idx_len \div 4) |->
                    LET i == 4 * (g - 1)
                    IN  Slice(indices, i, i + 3)
                          \o <<indices[i + 1], indices[i + 3], indices[i + 4]>>])

QuadNewIdx(indices) ==
    LET idx_len == Len(indices)
    IN  Flatten([g \in 1..(idx_len \div 4) |->
                    LET i == 4 * (g - 1)
                    IN  Slice(indices, i, i + 2)
                          \o <<indices[i + 1], indices[i + 3], indices[i + 4]>>])

(***************************************************************************)
(* The degenerate branches (lines 423-426 for strips, 439-442 for quads):  *)
(* self.primitive_type = Triangles; self.indices.clear(); return.          *)
(***************************************************************************)
\* a plausible slip: the tag is set but the index list is not cleared
ClearedTriangles_KeepIndices(self) ==
    [self EXCEPT !.primitive_type = Triangles]

ClearedTriangles(self) ==
    [self EXCEPT !.primitive_type = Triangles, !.indices = << >>]

(***************************************************************************)
(* What one call of triangulate_faces does to the piece itself, before it  *)
(* goes on to the children (lines 417-450).  `go` says whether the call    *)
(* reaches the loop over the children: the two degenerate branches return  *)
(* before it, and line 435 raises before it.                               *)
(*   - `match` compares self.primitive_type with the Enum members by ==,   *)
(*     so an int (the type of a decoded piece, line 348) matches no case.  *)
(*   - line 435 reads S3OPiece.primitive_type, a class attribute that is   *)
(*     only annotated (line 325) and never assigned: AttributeError, raised*)
(*     before line 436 stores new_idx.                                     *)
(***************************************************************************)
TriangulateSelf(self) ==
    LET idx_len == Len(self.indices)
    IN  CASE self.primitive_type = Triangles ->
               [piece |-> self, go |-> TRUE, err |-> NoError]
          [] self.primitive_type = TriangleStrips ->
               IF idx_len < 3
               THEN [piece |-> ClearedTriangles(self), go |-> FALSE, err |-> NoError]
               ELSE LET new_idx == StripNewIdx(self.indices)
                    IN  [piece |-> self, go |-> FALSE, err |-> "AttributeError"]
          [] self.primitive_type = Quads ->
               IF Len(self.indices) % 4 # 0
               THEN [piece |-> ClearedTriangles(self), go |-> FALSE, err |-> NoError]
               ELSE [piece |-> [self EXCEPT !.primitive_type = Triangles,
                                            !.indices = QuadNewIdx(self.indices)],
                     go |-> TRUE, err |-> NoError]
          [] OTHER ->
               [piece |-> self, go |-> TRUE, err |-> NoError]

(***************************************************************************)
(* S3OPiece.triangulate_faces (lines 416-453) on piece p of heap t: the    *)
(* piece itself, then `for child in self.children:                         *)
(* child.triangulate_faces()` in declaration order.  An exception raised   *)
(* in a child ends the loop; what was changed before it stays changed.     *)
(***************************************************************************)
RECURSIVE triangulate_faces(_, _)
RECURSIVE TriangulateChildren(_, _, _)

TriangulateChildren(t, cs, k) ==
    IF k > Len(cs)
    THEN [tree |-> t, err |-> NoError]
    ELSE LET r == triangulate_faces(t, cs[k])
         IN  IF r.err # NoError THEN r ELSE TriangulateChildren(r.tree, cs, k + 1)

triangulate_faces(t, p) ==
    LET r == TriangulateSelf(t[p])
        t1 == [t EXCEPT ![p] = r.piece]
    IN  IF r.go
        THEN TriangulateChildren(t1, t1[p].children, 1)
        ELSE [tree |-> t1, err |-> r.err]

(***************************************************************************)
(* The piece trees the triangulation runs start from.  A piece is built by *)
(* the empty-data constructor (lines 328-336) and filled in by field       *)
(* assignment, or comes from S3OPiece.__init__ reading a file (lines       *)
(* 338-371), which stores the file's int as primitive_type (line 348).     *)
(***************************************************************************)
\* children lists of the tree shapes: one piece; a root with one child; a
\* root with two children; a chain root - child - grandchild.
Shapes ==
    { << << >> >>,
      << <<2>>, << >> >>,
      << <<2, 3>>, << >>, << >> >>,
      << <<2>>, <<3>>, << >> >> }

Origins == {"built", "decoded"}

TypeOf(origin, n) ==
    IF origin = "built"
    THEN CHOOSE m \in PrimitiveType : m.n = n
    ELSE RawInt(n)

\* Index values a piece of the given type tag may hold: positions of its
\* vertex list, and for strips the end-of-strip marker too.
IdxVals(n) ==
    IF n = 1 THEN {EndOfStrip} \cup (0..(Len(Vertices) - 1))
    ELSE 0..(Len(Vertices) - 1)

Sum3(f, n) == (IF n >= 1 THEN f[1] ELSE 0) + (IF n >= 2 THEN f[2] ELSE 0)
                + (IF n >= 3 THEN f[3] ELSE 0)

MkPiece(name, ptype, indices, children) ==
    [name |-> name, parent_offset |-> <<0, 0, 0>>, primitive_type |-> ptype,
     vertices |-> Vertices, indices |-> indices, children |-> children]

\* the bytes of "base", the constructor's default name
NameBase == <<98, 97, 115, 101>>

InitTri ==
    /\ \E sh \in Shapes, origin \in Origins :
         LET n == Len(sh)
             maxlen == IF n = 1 THEN MaxIdx ELSE MaxTreeIdx
         IN  \E tags \in [1..n -> 0..2], lens \in [1..n -> 0..maxlen] :
               /\ Sum3(lens, n) <= maxlen
               /\ LET S(p) == IF p <= n THEN [1..lens[p] -> IdxVals(tags[p])]
                                        ELSE {<< >>}
                  IN  \E i1 \in S(1), i2 \in S(2), i3 \in S(3) :
                        LET idx == <<i1, i2, i3>>
                        IN  tree = [p \in 1..n |->
                                      MkPiece(NameBase, TypeOf(origin, tags[p]),
                                              idx[p], sh[p])]
    /\ s3o = NoS3O
    /\ data = << >>
    /\ err = NoError
    /\ last = NoOp
    /\ prev = NoOp
    /\ pre = tree

(***************************************************************************)
(* piece.triangulate_faces() called on any piece of the tree (the callers  *)
(* are S3O.triangulate_faces, line 548, on the root, and the passes of     *)
(* src/s3o_utils.py lines 341 and 383 on the piece they are given).        *)
(***************************************************************************)
TriangulateFaces(p) ==
    /\ p \in 1..Len(tree)
    /\ LET r == triangulate_faces(tree, p)
       IN  /\ tree' = r.tree
           /\ err' = r.err
    /\ pre' = tree
    /\ prev' = last
    /\ last' = [op |-> "triangulate_faces", piece |-> p]
    /\ UNCHANGED <<s3o, data>>

NextTri == \E p \in 1..3 : TriangulateFaces(p)

SpecTri == InitTri /\ [][NextTri]_vars

(***************************************************************************)
(* The binary codec.  A buffer is a sequence of bytes (0..255); offsets    *)
(* into it are 0-based, as in Python.                                      *)
(***************************************************************************)
HeaderSize == 52   \* _S3OHeader_struct.size, "< 12s i 5f 4i"
PieceSize == 52    \* _S3OPiece_struct.size, "< 10i 3f"
VertexSize == 32   \* _S3OVertex_struct.size, "< 3f 3f 2f"
IndexSize == 4     \* _S3OIndex_struct.size and _S3OChildOffset_struct.size, "< i"

\* b'Spring unit\x00'
Magic == <<83, 112, 114, 105, 110, 103, 32, 117, 110, 105, 116, 0>>

\* struct "<i": a little-endian two's-complement int32 (\div rounds down
\* and % is never negative, so a negative x gives its two's complement).
Int32Bytes(x) ==
    <<x % 256, (x \div 256) % 256, (x \div 65536) % 256, (x \div 16777216) % 256>>

ReadInt32(d, o) ==
    d[o + 1] + 256 * d[o + 2] + 65536 * d[o + 3]
        + 16777216 * (IF d[o + 4] >= 128 THEN d[o + 4] - 256 ELSE d[o + 4])

\* struct "<f": the vectors hold float32 values; a float32 is written as the
\* integer that numbers it, and its four bytes are that number's bytes.
Float32Bytes(x) == Int32Bytes(x)
ReadFloat32(d, o) == ReadInt32(d, o)

\* Struct.unpack_from(data, offset): a negative offset counts from the end
\* of the buffer; struct.error unless `size` bytes lie at the offset.
EffOffset(d, offset) == IF offset < 0 THEN offset + Len(d) ELSE offset

UnpackFits(d, offset, size) ==
    /\ EffOffset(d, offset) >= 0
    /\ Len(d) - EffOffset(d, offset) >= size

(***************************************************************************)
(* _extract_null_terminated_string (lines 104-113).  offset 0 gives "";    *)
(* otherwise data.index(b'\x00', offset) raises ValueError when no NUL     *)
(* lies at or after the offset (a negative offset counts from the end, and *)
(* data[offset:...] cuts the same way), and .decode() raises               *)
(* UnicodeDecodeError on bytes that are not UTF-8 (the buffers of the      *)
(* model hold no byte above 0x7f that is part of a valid sequence).        *)
(***************************************************************************)
\* line 113: data[offset:data.index(b'\x00', offset)].decode()
ScanString(d, offset) ==
    LET start == IF offset < 0
                 THEN (IF offset + Len(d) < 0 THEN 0 ELSE offset + Len(d))
                 ELSE offset
        nuls == {i \in start..(Len(d) - 1) : d[i + 1] = 0}
    IN  IF nuls = {}
        THEN [str |-> << >>, err |-> "ValueError"]
        ELSE LET idx == CHOOSE i \in nuls : \A j \in nuls : i <= j
                 bytes == [k \in 1..(idx - start) |-> d[start + k]]
             IN  IF \E k \in 1..Len(bytes) : bytes[k] >= 128
                 THEN [str |-> << >>, err |-> "UnicodeDecodeError"]
                 ELSE [str |-> bytes, err |-> NoError]

\* a plausible slip: offset 0 is read like any other offset
extract_null_terminated_string_NoZeroCase(d, offset) == ScanString(d, offset)

extract_null_terminated_string(d, offset) ==
    IF offset = 0
    THEN [str |-> << >>, err |-> NoError]
    ELSE ScanString(d, offset)

(***************************************************************************)
(* S3OPiece.__init__ (lines 338-371) reading the piece at `offset` of      *)
(* buffer d into heap `heap`.  The steps run in the order of the code and  *)
(* the first exception ends the call: the header (line 341), the name      *)
(* (343), the vertices (351-359), the indices (362-365), then each child   *)
(* (368-371) by a recursive call at the offset its table entry holds.      *)
(* `anc` holds the offsets of the pieces being read further up the call    *)
(* stack: a child entry that leads back to one of them makes the same      *)
(* calls again without end, which Python ends with RecursionError.         *)
(* The result is [heap, id, err]; ids are given in the order the           *)
(* constructors are entered.                                               *)
(***************************************************************************)
ReadVertex(d, o) ==
    S3OVertex(<<ReadFloat32(d, o), ReadFloat32(d, o + 4), ReadFloat32(d, o + 8)>>,
              <<ReadFloat32(d, o + 12), ReadFloat32(d, o + 16), ReadFloat32(d, o + 20)>>,
              <<ReadFloat32(d, o + 24), ReadFloat32(d, o + 28)>>)

Range0(n) == 0..(n - 1)    \* range(n)

RECURSIVE S3OPiece_init(_, _, _, _)
RECURSIVE ReadChildren(_, _, _, _, _, _, _)

\* the loop of lines 368-371 from child i on: `id` is the piece being read
ReadChildren(d, children_offset, num_children, id, i, anc, heap) ==
    IF i >= num_children
    THEN [heap |-> heap, id |-> id, err |-> NoError]
    ELSE LET cur_offset == children_offset + IndexSize * i
         IN  IF ~UnpackFits(d, cur_offset, IndexSize)
             THEN [heap |-> heap, id |-> id, err |-> "struct.error"]
             ELSE LET child_offset == ReadInt32(d, EffOffset(d, cur_offset))
                      r == S3OPiece_init(d, child_offset, anc, heap)
                  IN  IF r.err # NoError
                      THEN [heap |-> r.heap, id |-> id, err |-> r.err]
                      ELSE ReadChildren(d, children_offset, num_children, id, i + 1, anc,
                               [r.heap EXCEPT ![id].children = Append(@, r.id)])

S3OPiece_init(d, offset, anc, heap) ==
    LET id == Len(heap) + 1
        fail(e) == [heap |-> heap, id |-> id, err |-> e]
    IN  IF ~UnpackFits(d, offset, PieceSize) THEN fail("struct.error")
        ELSE
        LET o == EffOffset(d, offset)
            name_offset == ReadInt32(d, o)
            num_children == ReadInt32(d, o + 4)
            children_offset == ReadInt32(d, o + 8)
            num_vertices == ReadInt32(d, o + 12)
            vertex_offset == ReadInt32(d, o + 16)
            primitive_type == ReadInt32(d, o + 24)
            num_indices == ReadInt32(d, o + 28)
            index_offset == ReadInt32(d, o + 32)
            name == extract_null_terminated_string(d, name_offset)
            vat(i) == vertex_offset + VertexSize * i
            iat(i) == index_offset + IndexSize * i
        IN  IF o \in anc THEN fail("RecursionError")
            ELSE IF name.err # NoError THEN fail(name.err)
            ELSE IF \E i \in Range0(num_vertices) : ~UnpackFits(d, vat(i), VertexSize)
                 THEN fail("struct.error")
            ELSE IF \E i \in Range0(num_indices) : ~UnpackFits(d, iat(i), IndexSize)
                 THEN fail("struct.error")
            ELSE
            LET self ==
                  [name |-> name.str,
                   parent_offset |-> <<ReadFloat32(d, o + 40), ReadFloat32(d, o + 44),
                                       ReadFloat32(d, o + 48)>>,
                   primitive_type |-> RawInt(primitive_type),
                   vertices |-> [k \in 1..num_vertices |->
                                    ReadVertex(d, EffOffset(d, vat(k - 1)))],
                   indices |-> [k \in 1..num_indices |->
                                    ReadInt32(d, EffOffset(d, iat(k - 1)))],
                   children |-> << >>]
            IN  ReadChildren(d, children_offset, num_children, id, 0,
                             anc \cup {o}, Append(heap, self))

(***************************************************************************)
(* S3O.__init__ (lines 526-545).  The three header checks are assert       *)
(* statements; an exception leaves the caller without an S3O object.       *)
(***************************************************************************)
HeaderAsserts(magic, version, collision_data_offset) ==
    magic = Magic /\ version = 0 /\ collision_data_offset = 0

S3O_init(d) ==
    LET fail(e) == [s3o |-> NoS3O, tree |-> << >>, err |-> e]
    IN  IF ~UnpackFits(d, 0, HeaderSize) THEN fail("struct.error")
        ELSE
        LET magic == SubSeq(d, 1, 12)
            version == ReadInt32(d, 12)
            root_piece_offset == ReadInt32(d, 36)
            collision_data_offset == ReadInt32(d, 40)
            tex1 == extract_null_terminated_string(d, ReadInt32(d, 44))
            tex2 == extract_null_terminated_string(d, ReadInt32(d, 48))
        IN  IF ~HeaderAsserts(magic, version, collision_data_offset)
            THEN fail("AssertionError")
            ELSE IF tex1.err # NoError THEN fail(tex1.err)
            ELSE IF tex2.err # NoError THEN fail(tex2.err)
            ELSE LET r == S3OPiece_init(d, root_piece_offset, {}, << >>)
                 IN  IF r.err # NoError THEN fail(r.err)
                     ELSE [s3o |->
                             [made |-> TRUE,
                              collision_radius |-> ReadFloat32(d, 16),
                              height |-> ReadFloat32(d, 20),
                              midpoint |-> <<ReadFloat32(d, 24), ReadFloat32(d, 28),
                                             ReadFloat32(d, 32)>>,
                              texture_paths |-> <<tex1.str, tex2.str>>],
                           tree |-> r.heap,
                           err |-> NoError]

(***************************************************************************)
(* S3OPiece.serialize (lines 455-516).                                     *)
(***************************************************************************)
VertexBytes(v) ==
    Flatten(<<Float32Bytes(v[1][1]), Float32Bytes(v[1][2]), Float32Bytes(v[1][3]),
              Float32Bytes(v[2][1]), Float32Bytes(v[2][2]), Float32Bytes(v[2][3]),
              Float32Bytes(v[3][1]), Float32Bytes(v[3][2])>>)

\* The bytes of lines 500 and 514 before the children's subtrees, for the
\* piece `self` placed at `offset`, with the int `primitive_type` in the
\* header and `child_offsets` in the children table: piece_header +
\* encoded_name + child_data + vertex_data + index_data.  The index bytes
\* are appended to vertex_data (line 478) and index_data stays empty; the
\* bytes and index_offset (line 475, taken before) are the same either way.
PieceBlock(self, offset, primitive_type, child_offsets) ==
    LET name_offset == PieceSize + offset
        encoded_name == self.name \o <<0>>
        children_offset == name_offset + Len(encoded_name)
        child_data == Flatten([i \in 1..Len(self.children) |->
                                  Int32Bytes(child_offsets[i])])
        vertex_offset == children_offset + Len(child_data)
        vertex_only == Flatten([i \in 1..Len(self.vertices) |->
                                   VertexBytes(self.vertices[i])])
        index_offset == vertex_offset + Len(vertex_only)
        vertex_data == vertex_only \o Flatten([i \in 1..Len(self.indices) |->
                                                  Int32Bytes(self.indices[i])])
        index_data == << >>
        piece_header ==
            Flatten(<<Int32Bytes(name_offset),
                      Int32Bytes(Len(self.children)), Int32Bytes(children_offset),
                      Int32Bytes(Len(self.vertices)), Int32Bytes(vertex_offset),
                      Int32Bytes(0), Int32Bytes(primitive_type),
                      Int32Bytes(Len(self.indices)), Int32Bytes(index_offset),
                      Int32Bytes(0),
                      Float32Bytes(self.parent_offset[1]),
                      Float32Bytes(self.parent_offset[2]),
                      Float32Bytes(self.parent_offset[3])>>)
    IN  piece_header \o encoded_name \o child_data \o vertex_data \o index_data

\* Line 480, `self.primitive_type.value`: an Enum member gives its value,
\* the tuple (n,); an int has no attribute `value`.
ValueAttr(primitive_type) ==
    IF primitive_type.cls = "PrimitiveType"
    THEN [err |-> NoError, type |-> "tuple", v |-> primitive_type.n]
    ELSE [err |-> "AttributeError", type |-> "none", v |-> 0]

Zeros(n) == [i \in 1..n |-> 0]

RECURSIVE serialize(_, _, _)
RECURSIVE SerializeChildren(_, _, _, _, _, _)

\* the loop of lines 505-508 from child k on: the children's offsets so far
\* and their bytes
SerializeChildren(t, cs, k, base, child_offsets, serialized_child_data) ==
    IF k > Len(cs)
    THEN [offsets |-> child_offsets, bytes |-> serialized_child_data, err |-> NoError]
    ELSE LET child_offset == base + Len(serialized_child_data)
             r == serialize(t, cs[k], child_offset)
         IN  IF r.err # NoError
             THEN [offsets |-> child_offsets, bytes |-> << >>, err |-> r.err]
             ELSE SerializeChildren(t, cs, k + 1, base,
                                    Append(child_offsets, child_offset),
                                    serialized_child_data \o r.bytes)

\* _S3OPiece_struct.pack (line 499) raises struct.error unless the argument
\* for an "i" field is an int.
serialize(t, p, offset) ==
    LET self == t[p]
        value == ValueAttr(self.primitive_type)
    IN  IF value.err # NoError THEN [bytes |-> << >>, err |-> value.err]
        ELSE IF value.type # "int" THEN [bytes |-> << >>, err |-> "struct.error"]
        ELSE LET data0 == PieceBlock(self, offset, value.v, Zeros(Len(self.children)))
                 r == SerializeChildren(t, self.children, 1, offset + Len(data0),
                                        << >>, << >>)
             IN  IF r.err # NoError THEN [bytes |-> << >>, err |-> r.err]
                 ELSE [bytes |-> PieceBlock(self, offset, value.v, r.offsets) \o r.bytes,
                       err |-> NoError]

(***************************************************************************)
(* S3O.serialize (lines 550-570).                                          *)
(***************************************************************************)
HeaderBytes(m, root_offset, tex1_offset, tex2_offset) ==
    Magic \o Flatten(<<Int32Bytes(0), Float32Bytes(m.collision_radius),
                       Float32Bytes(m.height), Float32Bytes(m.midpoint[1]),
                       Float32Bytes(m.midpoint[2]), Float32Bytes(m.midpoint[3]),
                       Int32Bytes(root_offset), Int32Bytes(0),
                       Int32Bytes(tex1_offset), Int32Bytes(tex2_offset)>>)

\* data = header + encoded_texpath1 + encoded_texpath2 (line 567)
HeaderAndTextures(m) ==
    LET encoded_texpath1 == m.texture_paths[1] \o <<0>>
        encoded_texpath2 == m.texture_paths[2] \o <<0>>
        tex1_offset == HeaderSize
        tex2_offset == tex1_offset + Len(encoded_texpath1)
        root_offset == tex2_offset + Len(encoded_texpath2)
    IN  HeaderBytes(m, root_offset, tex1_offset, tex2_offset)
            \o encoded_texpath1 \o encoded_texpath2

S3O_serialize(m, t) ==
    LET head == HeaderAndTextures(m)
        r == serialize(t, 1, Len(head))
    IN  IF r.err # NoError THEN r
        ELSE [bytes |-> head \o r.bytes, err |-> NoError]

(***************************************************************************)
(* The files the decoder is given.  A .s3o file is written by the tools of *)
(* the format in the layout of the struct definitions (lines 9-37), the    *)
(* layout S3O.serialize aims at: the header, the two texture paths, then   *)
(* each piece's block followed by its children's subtrees, with the int    *)
(* 0, 1 or 2 as the primitive type.                                        *)
(***************************************************************************)
RECURSIVE FilePiece(_, _, _)
RECURSIVE FileChildren(_, _, _, _, _, _)

FileChildren(t, cs, k, base, child_offsets, bytes) ==
    IF k > Len(cs)
    THEN [offsets |-> child_offsets, bytes |-> bytes]
    ELSE FileChildren(t, cs, k + 1, base, Append(child_offsets, base + Len(bytes)),
                      bytes \o FilePiece(t, cs[k], base + Len(bytes)))

FilePiece(t, p, offset) ==
    LET self == t[p]
        size == Len(PieceBlock(self, offset, self.primitive_type.n,
                               Zeros(Len(self.children))))
        r == FileChildren(t, self.children, 1, offset + size, << >>, << >>)
    IN  PieceBlock(self, offset, self.primitive_type.n, r.offsets) \o r.bytes

FileBytes(m, t) == HeaderAndTextures(m) \o FilePiece(t, 1, Len(HeaderAndTextures(m)))

(***************************************************************************)
(* The models and files the codec runs start from.                         *)
(***************************************************************************)
\* The kinds of piece a unit model is made of: an emit/aim piece (two
\* vertices, no face), a triangle, a strip with an end-of-strip marker, a
\* quad, and an empty group node.  `tag` is the primitive type's number.
PieceKinds ==
    << [name |-> <<101>>, parent_offset |-> <<1, 2, 3>>, tag |-> 0,
        vertices |-> Vertices, indices |-> << >>],
       [name |-> <<116>>, parent_offset |-> <<0, 0, 0>>, tag |-> 0,
        vertices |-> Vertices, indices |-> <<0, 1, 0>>],
       [name |-> <<115>>, parent_offset |-> <<0, 3, 0>>, tag |-> 1,
        vertices |-> <<Vertices[1]>>, indices |-> <<0, EndOfStrip, 0, 0>>],
       [name |-> <<113>>, parent_offset |-> <<4, 0, 0>>, tag |-> 2,
        vertices |-> <<Vertices[2]>>, indices |-> <<0, 0, 0, 0>>],
       [name |-> << >>, parent_offset |-> <<0, 0, 0>>, tag |-> 0,
        vertices |-> << >>, indices |-> << >>] >>

CodecTree(sh, kinds, origin) ==
    [p \in 1..Len(sh) |->
        LET k == PieceKinds[kinds[p]]
        IN  [name |-> k.name, parent_offset |-> k.parent_offset,
             primitive_type |-> TypeOf(origin, k.tag),
             vertices |-> k.vertices, indices |-> k.indices, children |-> sh[p]]]

CodecTrees(origin) ==
    UNION { {CodecTree(sh, kinds, origin) :
                kinds \in [1..Len(sh) -> 1..Len(PieceKinds)]} : sh \in Shapes }

TexturePaths == { << << >>, << >> >>, << <<97>>, << >> >>, << <<97>>, <<98>> >> }

S3OModel(texture_paths) ==
    [made |-> TRUE, collision_radius |-> 10, height |-> 20,
     midpoint |-> <<0, 5, 0>>, texture_paths |-> texture_paths]

\* the well-formed files
GoodFiles ==
    { FileBytes(S3OModel(tp), t) : tp \in TexturePaths, t \in CodecTrees("decoded") }

\* the files that damaged copies are made of: a single piece of each kind,
\* and each kind of root with an emit piece or a group node as its child
SmallFiles ==
    { FileBytes(S3OModel(<< <<97>>, << >> >>), t) :
        t \in {u \in CodecTrees("decoded") :
                 \/ Len(u) = 1
                 \/ Len(u) = 2 /\ u[2].indices = << >>} }

\* d with the four bytes at offset `pos` overwritten by the int32 `val`
PatchInt32(d, pos, val) ==
    [i \in 1..Len(d) |->
        IF i > pos /\ i <= pos + 4 THEN Int32Bytes(val)[i - pos] ELSE d[i]]

\* the values a damaged field holds: zero, a small count, a negative
\* number, an offset two bytes before the end, the root piece's offset
DamagedValues(d) == {0, 1, 0 - 1, Len(d) - 2, ReadInt32(d, 36)}

InitCodec ==
    /\ \/ /\ \E tp \in TexturePaths : s3o = S3OModel(tp)
          /\ tree \in CodecTrees("built")
          /\ data = << >>
       \/ /\ s3o = NoS3O
          /\ tree = << >>
          /\ \/ data \in GoodFiles
             \/ \E d \in SmallFiles :
                  \/ \E pos \in 0..(Len(d) - 4), val \in DamagedValues(d) :
                        data = PatchInt32(d, pos, val)
                  \/ \E n \in 0..(Len(d) - 1) : data = SubSeq(d, 1, n)
    /\ err = NoError
    /\ last = NoOp
    /\ prev = NoOp
    /\ pre = tree

\* s3o_data = S3O(data): the importer's first step (src/io_ops.py line 49)
Decode ==
    /\ ~s3o.made
    /\ err = NoError
    /\ LET r == S3O_init(data)
       IN  /\ s3o' = r.s3o
           /\ tree' = r.tree
           /\ err' = r.err
    /\ pre' = tree
    /\ prev' = last
    /\ last' = [op |-> "S3O", piece |-> 0]
    /\ UNCHANGED data

\* data = s3o_data.serialize(): the exporter's step (src/io_ops.py line 118)
Serialize ==
    /\ s3o.made
    /\ LET r == S3O_serialize(s3o, tree)
       IN  /\ data' = IF r.err = NoError THEN r.bytes ELSE data
           /\ err' = r.err
    /\ pre' = tree
    /\ prev' = last
    /\ last' = [op |-> "serialize", piece |-> 0]
    /\ UNCHANGED <<s3o, tree>>

\* s3o_data.triangulate_faces() (lines 547-548; src/io_ops.py line 50)
S3OTriangulateFaces ==
    /\ s3o.made
    /\ LET r == triangulate_faces(tree, 1)
       IN  /\ tree' = r.tree
           /\ err' = r.err
    /\ pre' = tree
    /\ prev' = last
    /\ last' = [op |-> "triangulate_faces", piece |-> 1]
    /\ UNCHANGED <<s3o, data>>

NextCodec == Decode \/ Serialize \/ S3OTriangulateFaces

SpecCodec == InitCodec /\ [][NextCodec]_vars

(***************************************************************************)
(* Properties of the codec, checked under SpecCodec.                       *)
(***************************************************************************)
Decoded == last.op = "S3O"
Serialized == last.op = "serialize"

\* the error kinds the specification names
FormatError == "FormatError"
UnsupportedFeatureError == "UnsupportedFeatureError"

\* The data-model invariants: the tag is one of the three primitive types,
\* every index is a position of the vertex list (the end-of-strip marker of
\* a strip aside), and a Triangles piece holds whole triangles.
DataModelInvariant(t) ==
    \A p \in 1..Len(t) :
        /\ t[p].primitive_type.n \in 0..2
        /\ \A k \in 1..Len(t[p].indices) :
              \/ t[p].indices[k] \in 0..(Len(t[p].vertices) - 1)
              \/ t[p].primitive_type.n = 1 /\ t[p].indices[k] = EndOfStrip
        /\ t[p].primitive_type.n = 0 => Len(t[p].indices) % 3 = 0

\* field-for-field equality of two piece trees (the primitive type by its
\* number, whether it is held as an Enum member or as an int)
SameTree(a, b) ==
    /\ Len(a) = Len(b)
    /\ \A p \in 1..Len(a) :
          /\ a[p].name = b[p].name
          /\ a[p].parent_offset = b[p].parent_offset
          /\ a[p].primitive_type.n = b[p].primitive_type.n
          /\ a[p].vertices = b[p].vertices
          /\ a[p].indices = b[p].indices
          /\ a[p].children = b[p].children

\* C1: for a model that satisfies the data-model invariants and has at
\* least one child piece, S3O.serialize returns bytes whose decoding gives
\* back the header floats, the texture paths and the whole piece tree.
C1_RoundTrip ==
    (Serialized /\ DataModelInvariant(tree) /\ Len(tree[1].children) >= 1)
        => /\ err = NoError
           /\ LET r == S3O_init(data)
              IN  /\ r.err = NoError
                  /\ r.s3o = s3o
                  /\ SameTree(r.tree, tree)

BadMagic(d) == Len(d) < 12 \/ SubSeq(d, 1, 12) # Magic
BadVersion(d) == Len(d) >= 16 /\ ReadInt32(d, 12) # 0

\* C2: decoding a buffer whose first 12 bytes are not the magic, or whose
\* version is not 0, fails with FormatError and yields no model.
C2_BadMagicOrVersion ==
    (Decoded /\ (BadMagic(data) \/ BadVersion(data)))
        => /\ err = FormatError
           /\ ~s3o.made
           /\ tree = << >>

\* C3: decoding a buffer with the magic and version 0 but a non-zero
\* collision-data offset fails with UnsupportedFeatureError, a kind other
\* than the one the same buffer gives once its magic is damaged.
C3_CollisionDataOffset ==
    (Decoded /\ Len(data) >= 44 /\ ~BadMagic(data) /\ ~BadVersion(data)
             /\ ReadInt32(data, 40) # 0)
        => /\ err = UnsupportedFeatureError
           /\ err # S3O_init(PatchInt32(data, 0, 0)).err
           /\ ~s3o.made

\* In S3O_init a struct.error is raised exactly where the bytes to unpack do
\* not lie inside the buffer, and a ValueError exactly where no NUL lies at
\* or after a string's offset: the reads that run past the buffer.
ReadRanPastBuffer == err \in {"struct.error", "ValueError"}

HeaderValid(d) ==
    /\ Len(d) >= HeaderSize
    /\ HeaderAsserts(SubSeq(d, 1, 12), ReadInt32(d, 12), ReadInt32(d, 40))

\* C4: with a valid header, a read that runs past the end of the buffer
\* makes the decode fail with FormatError, the kind of a bad magic, and
\* with no other kind.
C4_PastEndIsFormatError ==
    (Decoded /\ HeaderValid(data) /\ ReadRanPastBuffer)
        => \/ err = FormatError
           \/ err = S3O_init(PatchInt32(data, 0, 0)).err

\* C5: S3O.serialize raises nothing on a model that satisfies the
\* data-model invariants, built in memory or decoded from a file.
C5_EncodeNeverFails ==
    (Serialized /\ DataModelInvariant(tree)) => err = NoError

(***************************************************************************)
(* Properties of triangulate_faces, checked under SpecTri.                 *)
(***************************************************************************)
Triangulated == last.op = "triangulate_faces"

\* the piece the last call was made on, before and after the call
Before == pre[last.piece]
After == tree[last.piece]

\* C6: after triangulate_faces is called on the root piece, every piece of
\* the tree has primitive_type Triangles.
C6_WholeTreeTriangles ==
    (Triangulated /\ last.piece = 1)
        => \A p \in 1..Len(tree) : tree[p].primitive_type = Triangles

\* C7: a piece that is already Triangles is left unchanged by
\* triangulate_faces, and the pass is idempotent: a second call on the same
\* piece leaves the tree as the first call left it.
C7_Idempotent ==
    /\ (Triangulated /\ Before.primitive_type = Triangles) => After = Before
    /\ (Triangulated /\ prev = last) => tree = pre

\* C8: a Quads piece whose index count is not a multiple of 4, and a
\* TriangleStrips piece with fewer than 3 indices, end as Triangles with an
\* empty index list and their vertices unchanged, and the call raises nothing.
Malformed(piece) ==
    \/ piece.primitive_type = Quads /\ Len(piece.indices) % 4 # 0
    \/ piece.primitive_type = TriangleStrips /\ Len(piece.indices) < 3

StripWindowsOfThree(indices) ==
    Flatten([j \in 1..(Len(indices) - 2) |->
                IF \A k \in j..(j + 2) : indices[k] # EndOfStrip
                THEN <<indices[j], indices[j + 1], indices[j + 2]>>
                ELSE << >>])

\* C9: triangulate_faces on a TriangleStrips piece with at least 3 indices
\* completes without error, sets primitive_type to Triangles and leaves
\* exactly the windows of three indices that hold no -1, in order.
C9_StripWindows ==
    (Triangulated /\ Before.primitive_type = TriangleStrips
                  /\ Len(Before.indices) >= 3)
        => /\ err = NoError
           /\ After.primitive_type = Triangles
           /\ After.indices = StripWindowsOfThree(Before.indices)

C11_TrianglesMultipleOf3 ==
    (Triangulated /\ err = NoError /\ After.primitive_type = Triangles
        /\ \/ Before.primitive_type = Triangles /\ Len(Before.indices) % 3 = 0
           \/ Before.primitive_type = TriangleStrips
           \/ Before.primitive_type = Quads)
        => Len(After.indices) % 3 = 0

(***************************************************************************)
(* The mesh passes of src/s3o_utils.py (the module src/io_ops.py imports): *)
(* optimize_piece, fix_zero_normals_piece, recalculate_normals and         *)
(* recursively_optimize_pieces, and S3OPiece.mergechildren of src/s3o.py.  *)
(* src/s3o.py and src/s3o_ops.py hold copies of the first four.            *)
(*                                                                         *)
(* A vertex is compared and hashed by value: two S3OVertex tuples are the  *)
(* same dict key exactly when position, normal and tex_coords are equal.   *)
(***************************************************************************)

\* sequence[i] of Python: the 1-based position index i denotes in a list of
\* n elements (a negative i counts from the end), or 0 where Python raises
\* IndexError.
PyPos(n, i) ==
    IF i >= 0 /\ i < n THEN i + 1
    ELSE IF i < 0 /\ i + n >= 0 THEN i + n + 1
    ELSE 0

\* list.index(x): the 0-based position of the first x, or -1 where Python
\* raises ValueError.  The same gives dict[x] for a dict that numbers its
\* keys in insertion order (remap, lines 289-291).
IndexOf(s, x) ==
    IF \E i \in 1..Len(s) : s[i] = x
    THEN (CHOOSE i \in 1..Len(s) : s[i] = x /\ \A j \in 1..(i - 1) : s[j] # x) - 1
    ELSE 0 - 1

\* x in s
In(x, s) == \E i \in 1..Len(s) : s[i] = x

\* util.batched(l, 3) / chunks(l, 3): successive chunks of three, the last
\* one shorter when len(l) is not a multiple of 3
Batched3(l) ==
    [k \in 1..((Len(l) + 2) \div 3) |-> Slice(l, 3 * (k - 1), 3 * k)]

(***************************************************************************)
(* optimize_piece, lines 284-295: remap numbers the distinct vertex values *)
(* in the order the index list first refers to them; new_vertices is the   *)
(* list of those values by number.  `remap` is held as that list.          *)
(***************************************************************************)
\* a plausible slip: vertices taken for the same when their positions agree
SameKey_PositionOnly(a, b) == a[1] = b[1]

\* the dict's test of a key: equal position, normal and tex_coords
SameKey(a, b) == a = b

\* remap[vertex] for a vertex that is a key of remap (line 291):
\* a plausible slip: the number given last instead of the vertex's number
Numbered_Newest(remap, vertex) == Len(remap) - 1

Numbered(remap, vertex) ==
    (CHOOSE i \in 1..Len(remap) :
        /\ SameKey(remap[i], vertex)
        /\ \A j \in 1..(i - 1) : ~SameKey(remap[j], vertex)) - 1

RECURSIVE Remap(_, _, _, _, _)
Remap(vertices, indices, k, remap, new_indices) ==
    IF k > Len(indices)
    THEN [remap |-> remap, new_indices |-> new_indices, err |-> NoError]
    ELSE LET pos == PyPos(Len(vertices), indices[k])
         IN  IF pos = 0
             THEN [remap |-> remap, new_indices |-> new_indices,
                   err |-> "IndexError"]
             ELSE LET vertex == vertices[pos]
                      remap1 == IF \E i \in 1..Len(remap) : SameKey(remap[i], vertex)
                                THEN remap
                                ELSE Append(remap, vertex)
                  IN  Remap(vertices, indices, k + 1, remap1,
                            Append(new_indices, Numbered(remap1, vertex)))

(***************************************************************************)
(* vertex_cache (imported at line 9; the module is not among the source    *)
(* files), after section 4.5 of the specification.                         *)
(*   average_transform_to_vertex_ratio(triangles): a FIFO cache of         *)
(*   CacheSize vertex indices; for each triangle in order, one transform   *)
(*   for each of its vertices that is not resident, then the newly         *)
(*   transformed vertices are pushed, the oldest entries evicted on        *)
(*   overflow; the result is total_transforms / num_triangles, held as the *)
(*   fraction [num, den].                                                  *)
(*   get_cache_optimized_triangles(triangles): a reordering of the         *)
(*   triangle list.  Which one is the algorithm's choice: `pick` is an     *)
(*   order of triangle numbers, and a list of n triangles is put in the    *)
(*   order the numbers 1..n have in it.                                    *)
(***************************************************************************)
CacheSize == 32

\* s without the repetitions of its elements, first occurrences kept
RECURSIVE Distinct(_)
Distinct(s) ==
    IF s = << >> THEN << >>
    ELSE LET front == Distinct(SubSeq(s, 1, Len(s) - 1))
             x == s[Len(s)]
         IN  IF In(x, front) THEN front ELSE Append(front, x)

RECURSIVE Transforms(_, _, _)
Transforms(triangles, k, cache) ==
    IF k > Len(triangles) THEN 0
    ELSE LET tri == triangles[k]
             missed == SelectSeq(tri, LAMBDA v : ~In(v, cache))
             pushed == cache \o Distinct(missed)
             cache1 == IF Len(pushed) > CacheSize
                       THEN SubSeq(pushed, Len(pushed) - CacheSize + 1, Len(pushed))
                       ELSE pushed
         IN  Len(missed) + Transforms(triangles, k + 1, cache1)

average_transform_to_vertex_ratio(triangles) ==
    [num |-> Transforms(triangles, 1, << >>), den |-> Len(triangles)]

\* a / b < c / d for fractions with positive denominators
Less(x, y) == x.num * y.den < y.num * x.den

Reorderings(n) ==
    {g \in [1..n -> 1..n] : \A i, j \in 1..n : i # j => g[i] # g[j]}

get_cache_optimized_triangles(triangles, pick) ==
    LET n == Len(triangles)
        order == SelectSeq(pick, LAMBDA i : i <= n)
    IN  IF Len(order) = n
        THEN [k \in 1..n |-> triangles[order[k]]]
        ELSE triangles

(***************************************************************************)
(* optimize_piece, lines 297-306: the cache reorder.  The test compares    *)
(* piece.primitive_type with the str "triangles"; a str is modelled by the *)
(* class "str", which no Enum member and no int equals.                    *)
(***************************************************************************)
Str_triangles == [cls |-> "str", n |-> 0]

\* a plausible slip: the reordering is adopted without the comparison
CacheReorder_AlwaysAdopt(primitive_type, new_indices, pick) ==
    IF Len(new_indices) > 0
    THEN Flatten(get_cache_optimized_triangles(Batched3(new_indices), pick))
    ELSE new_indices

CacheReorder(primitive_type, new_indices, pick) ==
    IF primitive_type = Str_triangles /\ Len(new_indices) > 0
    THEN LET tris == Batched3(new_indices)
             acmr == average_transform_to_vertex_ratio(tris)
             tmp == get_cache_optimized_triangles(tris, pick)
             acmr_new == average_transform_to_vertex_ratio(tmp)
         IN  IF Less(acmr_new, acmr) THEN Flatten(tmp) ELSE new_indices
    ELSE new_indices

(***************************************************************************)
(* optimize_piece, lines 308-320: vertex_map lists the index values in the *)
(* order of their first appearance; every index is replaced by its         *)
(* position in vertex_map and the vertex list is gathered to match.        *)
(***************************************************************************)
VertexMap(new_indices) == Distinct(new_indices)

\* a plausible slip: new_index = len(vertex_map) taken after the append, so
\* the first occurrence of an index value is numbered one too high
RemappedIndices_AfterAppend(new_indices) ==
    [k \in 1..Len(new_indices) |->
        IF In(new_indices[k], SubSeq(new_indices, 1, k - 1))
        THEN IndexOf(VertexMap(new_indices), new_indices[k])
        ELSE IndexOf(VertexMap(new_indices), new_indices[k]) + 1]

RemappedIndices(new_indices) ==
    [k \in 1..Len(new_indices) |-> IndexOf(VertexMap(new_indices), new_indices[k])]

GatherVertices(new_vertices, vertex_map) ==
    [j \in 1..Len(vertex_map) |-> new_vertices[vertex_map[j] + 1]]

(***************************************************************************)
(* optimize_piece(piece), lines 283-323.  An IndexError of line 288 leaves *)
(* the piece as it was: indices and vertices are assigned last.            *)
(***************************************************************************)
optimize_piece(piece, pick) ==
    LET r == Remap(piece.vertices, piece.indices, 1, << >>, << >>)
    IN  IF r.err # NoError
        THEN [piece |-> piece, err |-> r.err]
        ELSE LET new_vertices == r.remap
                 new_indices == CacheReorder(piece.primitive_type,
                                             r.new_indices, pick)
             IN  [piece |->
                    [piece EXCEPT
                       !.indices = RemappedIndices(new_indices),
                       !.vertices = GatherVertices(new_vertices,
                                                   VertexMap(new_indices))],
                  err |-> NoError]

(***************************************************************************)
(* mathutils.Vector arithmetic on vectors with integer components.         *)
(* Lengths are compared through their squares: length < 0.01 is            *)
(* 10000 * length^2 < 1, and so on.                                        *)
(***************************************************************************)
Minus(a, b) == <<a[1] - b[1], a[2] - b[2], a[3] - b[3]>>

Cross(a, b) ==
    <<a[2] * b[3] - a[3] * b[2],
      a[3] * b[1] - a[1] * b[3],
      a[1] * b[2] - a[2] * b[1]>>

Length2(v) == v[1] * v[1] + v[2] * v[2] + v[3] * v[3]

\* Vector.normalized(): the zero vector stays the zero vector; any other
\* vector is divided by its length (the vectors of the model are parallel
\* to an axis, so the length is the integer r with r * r = length^2)
Normalized(v) ==
    IF Length2(v) = 0 THEN v
    ELSE LET r == CHOOSE x \in 1..Length2(v) : x * x = Length2(v)
         IN  <<v[1] \div r, v[2] \div r, v[3] \div r>>

\* S3OVertex.with_position, with_normal (src/s3o.py lines 290-294)
with_position(vertex, position) == S3OVertex(position, vertex[2], vertex[3])
with_normal(vertex, normal) == S3OVertex(vertex[1], normal, vertex[3])

DEFAULT_NORMAL == <<0, 1, 0>>

(***************************************************************************)
(* fix_zero_normals_piece, lines 346-371: the loop over the vertices.      *)
(* RepairedNormal is the normal lines 356-367 give a referenced vertex     *)
(* whose normal is nearly zero: f_idx is the first chunk of three indices  *)
(* that holds v_idx; idxs[f_idx + 1] or idxs[f_idx + 2] past the end of    *)
(* the list, or an index that is no position of verts, is an IndexError.   *)
(* Line 366 normalises vertex.normal, the nearly-zero normal itself, not   *)
(* new_normal.                                                             *)
(***************************************************************************)
RepairedNormal(verts, idxs, v_idx) ==
    LET vertex == verts[v_idx + 1]
        f_idx == CHOOSE f \in {3 * k : k \in 0..(Len(idxs) \div 3)} :
                    /\ In(v_idx, Slice(idxs, f, f + 3))
                    /\ \A g \in {3 * k : k \in 0..(Len(idxs) \div 3)} :
                          g < f => ~In(v_idx, Slice(idxs, g, g + 3))
        at(k) == PyPos(Len(verts), idxs[k + 1])
    IN  IF f_idx + 2 >= Len(idxs)
           \/ at(f_idx) = 0 \/ at(f_idx + 1) = 0 \/ at(f_idx + 2) = 0
        THEN [normal |-> vertex[2], err |-> "IndexError"]
        ELSE LET p0 == verts[at(f_idx)][1]
                 p1 == verts[at(f_idx + 1)][1]
                 p2 == verts[at(f_idx + 2)][1]
                 new_normal == Cross(Minus(p1, p0), Minus(p2, p0))
             IN  IF 1000000 * Length2(new_normal) < 1
                 THEN [normal |-> DEFAULT_NORMAL, err |-> NoError]
                 ELSE [normal |-> Normalized(vertex[2]), err |-> NoError]

RECURSIVE FixNormals(_, _, _)
FixNormals(verts, idxs, v_idx) ==
    IF v_idx >= Len(verts)
    THEN [verts |-> verts, err |-> NoError]
    ELSE LET vertex == verts[v_idx + 1]
             len2 == Length2(vertex[2])
         IN  IF 10000 * len2 < 1
             THEN IF ~In(v_idx, idxs)
                  THEN FixNormals([verts EXCEPT ![v_idx + 1] =
                                       with_normal(vertex, DEFAULT_NORMAL)],
                                  idxs, v_idx + 1)
                  ELSE LET r == RepairedNormal(verts, idxs, v_idx)
                       IN  IF r.err # NoError
                           THEN [verts |-> verts, err |-> r.err]
                           ELSE FixNormals([verts EXCEPT ![v_idx + 1] =
                                                with_normal(vertex, r.normal)],
                                           idxs, v_idx + 1)
             ELSE IF 100 * len2 < 81 \/ 100 * len2 > 121
                  THEN FixNormals([verts EXCEPT ![v_idx + 1] =
                                       with_normal(vertex, Normalized(vertex[2]))],
                                  idxs, v_idx + 1)
                  ELSE FixNormals(verts, idxs, v_idx + 1)

(***************************************************************************)
(* fix_zero_normals_piece(piece), lines 331-379, on piece p of heap t:     *)
(* nothing for an empty index list; else piece.triangulate_faces() (the    *)
(* piece and its descendants), then the loop.  The vertex list is changed  *)
(* in place, so what was repaired before an exception stays repaired.      *)
(***************************************************************************)
fix_zero_normals_piece(t, p) ==
    IF Len(t[p].indices) = 0
    THEN [tree |-> t, err |-> NoError]
    ELSE LET r == triangulate_faces(t, p)
         IN  IF r.err # NoError
             THEN r
             ELSE LET f == FixNormals(r.tree[p].vertices, r.tree[p].indices, 0)
                  IN  [tree |-> [r.tree EXCEPT ![p].vertices = f.verts],
                       err |-> f.err]

(***************************************************************************)
(* recalculate_normals(piece, smooth_angle, recursive), lines 382-422.     *)
(* After piece.triangulate_faces(), a piece with more than 4 indices is    *)
(* exploded (lines 388-394): one vertex per index, indices 0, 1, 2, ...    *)
(* Then, for i = 0, faces_per_vertex[0] holds at least 0 itself and line   *)
(* 406 calls mathutils.geometry.normal on piece.vertices[0:2], two         *)
(* S3OVertex tuples where three or more vectors are required: the call     *)
(* raises, and the exploded piece stays.                                   *)
(***************************************************************************)
RECURSIVE recalculate_normals(_, _, _)
RECURSIVE RecalculateChildren(_, _, _)

RecalculateChildren(t, cs, k) ==
    IF k > Len(cs)
    THEN [tree |-> t, err |-> NoError]
    ELSE LET r == recalculate_normals(t, cs[k], TRUE)
         IN  IF r.err # NoError THEN r ELSE RecalculateChildren(r.tree, cs, k + 1)

recalculate_normals(t, p, recursive) ==
    LET r == triangulate_faces(t, p)
        piece == r.tree[p]
        n == Len(piece.indices)
    IN  IF r.err # NoError
        THEN r
        ELSE IF n > 4
        THEN IF \E k \in 1..n : PyPos(Len(piece.vertices), piece.indices[k]) = 0
             THEN [tree |-> r.tree, err |-> "IndexError"]
             ELSE LET new_vertices ==
                          [k \in 1..n |->
                              piece.vertices[PyPos(Len(piece.vertices),
                                                   piece.indices[k])]]
                      new_indices == [k \in 1..n |-> k - 1]
                  IN  [tree |-> [r.tree EXCEPT ![p].vertices = new_vertices,
                                              ![p].indices = new_indices],
                       err |-> "TypeError"]
        ELSE IF recursive
             THEN RecalculateChildren(r.tree, piece.children, 1)
             ELSE [tree |-> r.tree, err |-> NoError]

(***************************************************************************)
(* S3OPiece.mergechildren (src/s3o.py lines 373-399) on piece p of heap t: *)
(* the children merge their own children first; then every child's         *)
(* vertices, moved by the child's parent_offset, and its indices, raised   *)
(* by the number of vertices gathered so far, are appended to the piece,   *)
(* and the piece is left without children.                                 *)
(***************************************************************************)
RECURSIVE mergechildren(_, _)
RECURSIVE MergeEach(_, _, _)
RECURSIVE AppendChildren(_, _, _, _, _, _)

MergeEach(t, cs, k) ==
    IF k > Len(cs) THEN t ELSE MergeEach(mergechildren(t, cs[k]), cs, k + 1)

\* line 379: indexoffset = len(self.vertices)
\* a plausible slip: indices counted from 1, as in an .obj file
IndexOffset_FromOne(vertices) == Len(vertices) + 1

IndexOffset(vertices) == Len(vertices)

\* a plausible slip: the child's indices are taken over as they are
ShiftIndices_Unshifted(indices, indexoffset) == indices

ShiftIndices(indices, indexoffset) ==
    [k \in 1..Len(indices) |-> indices[k] + indexoffset]

AppendChildren(t, cs, k, newverts, newindices, indexoffset) ==
    IF k > Len(cs)
    THEN [vertices |-> newverts, indices |-> newindices]
    ELSE LET child == t[cs[k]]
             moved == [j \in 1..Len(child.vertices) |->
                          LET v == child.vertices[j]
                          IN  with_position(v,
                                  <<v[1][1] + child.parent_offset[1],
                                    v[1][2] + child.parent_offset[2],
                                    v[1][3] + child.parent_offset[3]>>)]
         IN  AppendChildren(t, cs, k + 1, newverts \o moved,
                            newindices \o ShiftIndices(child.indices, indexoffset),
                            indexoffset + Len(child.vertices))

mergechildren(t, p) ==
    LET t1 == MergeEach(t, t[p].children, 1)
        self == t1[p]
        m == AppendChildren(t1, self.children, 1, self.vertices, self.indices,
                            IndexOffset(self.vertices))
    IN  [t1 EXCEPT ![p].vertices = m.vertices,
                   ![p].indices = m.indices,
                   ![p].children = << >>]

(***************************************************************************)
(* recursively_optimize_pieces(piece), lines 274-280.  `piece.indices is   *)
(* list` asks whether the index list is the very object `list`, the class: *)
(* for a list of indices it never is.                                      *)
(***************************************************************************)
Is_list(indices) == FALSE

RECURSIVE recursively_optimize_pieces(_, _, _)
RECURSIVE OptimizeChildren(_, _, _, _)

OptimizeChildren(t, cs, k, pick) ==
    IF k > Len(cs)
    THEN [tree |-> t, err |-> NoError]
    ELSE LET r == recursively_optimize_pieces(t, cs[k], pick)
         IN  IF r.err # NoError THEN r
             ELSE OptimizeChildren(r.tree, cs, k + 1, pick)

recursively_optimize_pieces(t, p, pick) ==
    IF Is_list(t[p].indices) /\ Len(t[p].indices) > 4
    THEN LET o == optimize_piece(t[p], pick)
             t1 == [t EXCEPT ![p] = o.piece]
             f == IF o.err # NoError
                  THEN [tree |-> t1, err |-> o.err]
                  ELSE fix_zero_normals_piece(t1, p)
         IN  IF f.err # NoError THEN f
             ELSE OptimizeChildren(f.tree, f.tree[p].children, 1, pick)
    ELSE OptimizeChildren(t, t[p].children, 1, pick)

(***************************************************************************)
(* The pieces the mesh passes are run on.  Vertex values: positions in the *)
(* plane z = 0, a zero normal, a unit normal and a normal of length 2.     *)
(* The first of MeshKinds holds a vertex twice, and a vertex with the      *)
(* position of another and a normal of its own.                            *)
(***************************************************************************)
MaxMeshIdx == 6   \* longest index list of a Triangles piece of a one-piece tree

MeshVertices ==
    << S3OVertex(<<0, 0, 0>>, <<0, 0, 0>>, <<0, 0>>),
       S3OVertex(<<1, 0, 0>>, <<0, 0, 1>>, <<0, 0>>),
       S3OVertex(<<0, 1, 0>>, <<0, 2, 0>>, <<0, 0>>) >>

\* the vertex lists of a piece: up to three of these values, repeats allowed
VertexLists ==
    UNION { [1..n -> {MeshVertices[i] : i \in 1..Len(MeshVertices)}] :
              n \in 0..Len(MeshVertices) }

\* the primitive types of the pieces: the three Enum members, and the int 0
\* of a decoded Triangles piece
MeshTypes == PrimitiveType \cup {RawInt(0)}

\* the index values of a piece with n vertices: the positions of its vertex
\* list, and the end-of-strip marker in a strip
MeshIdxVals(ptype, n) ==
    IF ptype = TriangleStrips THEN {EndOfStrip} \cup (0..(n - 1)) ELSE 0..(n - 1)

\* the pieces of the trees of several pieces
MeshKinds ==
    << [parent_offset |-> <<0, 0, 0>>, primitive_type |-> Triangles,
        vertices |-> <<MeshVertices[2], MeshVertices[2], MeshVertices[3],
                       S3OVertex(<<1, 0, 0>>, <<0, 2, 0>>, <<0, 0>>)>>,
        indices |-> <<0, 1, 2, 2, 3, 0>>],
       [parent_offset |-> <<1, 2, 3>>, primitive_type |-> Quads,
        vertices |-> MeshVertices, indices |-> <<0, 1, 2, 0>>],
       [parent_offset |-> <<0, 0, 4>>, primitive_type |-> Triangles,
        vertices |-> <<MeshVertices[1]>>, indices |-> << >>],
       [parent_offset |-> <<0, 0, 0>>, primitive_type |-> TriangleStrips,
        vertices |-> <<MeshVertices[2], MeshVertices[3]>>,
        indices |-> <<0, 1, EndOfStrip>>],
       [parent_offset |-> <<2, 0, 0>>, primitive_type |-> RawInt(0),
        vertices |-> MeshVertices, indices |-> <<0, 1, 2, 0, 0, 1>>] >>

\* the choices of get_cache_optimized_triangles: the orders of
\* ceil(MaxMeshIdx / 3) triangles; a shorter list is put in the order its
\* triangles have in the choice
Picks == Reorderings((MaxMeshIdx + 2) \div 3)

InitMesh ==
    /\ \/ \E vertices \in VertexLists, ptype \in MeshTypes :
            \E len \in 0..(IF ptype = Triangles THEN MaxMeshIdx ELSE MaxTreeIdx) :
              \E indices \in [1..len -> MeshIdxVals(ptype, Len(vertices))] :
                tree = << [MkPiece(NameBase, ptype, indices, << >>)
                             EXCEPT !.vertices = vertices] >>
       \/ \E sh \in Shapes :
            /\ Len(sh) > 1
            /\ \E kinds \in [1..Len(sh) -> 1..Len(MeshKinds)] :
                 tree = [p \in 1..Len(sh) |->
                           LET k == MeshKinds[kinds[p]]
                           IN  [name |-> NameBase,
                                parent_offset |-> k.parent_offset,
                                primitive_type |-> k.primitive_type,
                                vertices |-> k.vertices,
                                indices |-> k.indices,
                                children |-> sh[p]]]
    /\ s3o = NoS3O
    /\ data = << >>
    /\ err = NoError
    /\ last = NoOp
    /\ prev = NoOp
    /\ pre = tree

\* one pass is run on a one-piece tree, up to two on a tree of several pieces
MeshMayRun(p) ==
    /\ p \in 1..Len(tree)
    /\ \/ last = NoOp
       \/ prev = NoOp /\ Len(tree) > 1

MeshStep(op, p, r) ==
    /\ tree' = r.tree
    /\ err' = r.err
    /\ pre' = tree
    /\ prev' = last
    /\ last' = [op |-> op, piece |-> p]
    /\ UNCHANGED <<s3o, data>>

MeshTriangulateFaces(p) ==
    /\ MeshMayRun(p)
    /\ MeshStep("triangulate_faces", p, triangulate_faces(tree, p))

OptimizePiece(p) ==
    /\ MeshMayRun(p)
    /\ \E pick \in Picks :
         LET o == optimize_piece(tree[p], pick)
         IN  MeshStep("optimize_piece", p,
                      [tree |-> [tree EXCEPT ![p] = o.piece], err |-> o.err])

FixZeroNormalsPiece(p) ==
    /\ MeshMayRun(p)
    /\ MeshStep("fix_zero_normals_piece", p, fix_zero_normals_piece(tree, p))

RecalculateNormals(p) ==
    /\ MeshMayRun(p)
    /\ \E recursive \in BOOLEAN :
         MeshStep("recalculate_normals", p, recalculate_normals(tree, p, recursive))

MergeChildren(p) ==
    /\ MeshMayRun(p)
    /\ MeshStep("mergechildren", p, [tree |-> mergechildren(tree, p), err |-> NoError])

RecursivelyOptimizePieces(p) ==
    /\ MeshMayRun(p)
    /\ \E pick \in Picks :
         MeshStep("recursively_optimize_pieces", p,
                  recursively_optimize_pieces(tree, p, pick))

NextMesh ==
    \E p \in 1..3 :
        \/ MeshTriangulateFaces(p)
        \/ OptimizePiece(p)
        \/ FixZeroNormalsPiece(p)
        \/ RecalculateNormals(p)
        \/ MergeChildren(p)
        \/ RecursivelyOptimizePieces(p)

SpecMesh == InitMesh /\ [][NextMesh]_vars

(***************************************************************************)
(* S3OVertex.ambient_occlusion, src/s3o.py lines 296-307.  tex_coords      *)
(* holds 32-bit floats (the "2f" of _S3OVertex_struct, line 29).  A         *)
(* coordinate is the record [c, f] that stands for the number              *)
(*     (c + f / FineUnits) / AOScale                                       *)
(* with 0 <= f < FineUnits: c is math.floor(u * 2 ** 14) and f the packed   *)
(* ambient occlusion in units of 1 / FineUnits.  Every 32-bit float from 0  *)
(* to below 2 ** 10 that the setter can produce is such a record.  An       *)
(* ambient-occlusion value passed or returned is a number of fiftieths      *)
(* (passed: 1 is 0.02, 49 is 0.98) or of units 1 / FineUnits (returned).    *)
(***************************************************************************)
AOScale == 16384

FineBits == 30

MantissaBits == 24

Fiftieths == 50

RECURSIVE Pow2(_)
Pow2(n) == IF n = 0 THEN 1 ELSE 2 * Pow2(n - 1)

FineUnits == Pow2(FineBits)

\* floor(log2(n)) for n >= 1
RECURSIVE Log2(_)
Log2(n) == IF n < 2 THEN 0 ELSE 1 + Log2(n \div 2)

\* floor(log2(k / 50)) for 0 < k < 50
RECURSIVE Log2Fiftieths(_)
Log2Fiftieths(k) == IF k >= Fiftieths THEN 0 ELSE Log2Fiftieths(2 * k) - 1

F32(c, f) == [c |-> c, f |-> f]

\* line 305: value = min(0.98, max(0.02, value))
Clamped(value) ==
    LET lo == IF value > 1 THEN value ELSE 1
    IN  IF lo < Fiftieths - 1 THEN lo ELSE Fiftieths - 1

\* k / 50 in units of 1 / FineUnits: the whole units, and whether they are
\* all of it
InUnits(k) ==
    LET q == FineUnits \div Fiftieths
        r == FineUnits % Fiftieths
    IN  [whole |-> k * q + (k * r) \div Fiftieths,
         exact |-> (k * r) % Fiftieths = 0]

\* the distance of neighbouring 32-bit floats at (c + k / 50) / AOScale, in
\* units of 1 / FineUnits
Ulp(c, k) ==
    IF c > 0 THEN Pow2(Log2(c) + FineBits - (MantissaBits - 1))
    ELSE Pow2(Log2Fiftieths(k) + FineBits - (MantissaBits - 1))

\* the 32-bit float nearest to (c + k / 50) / AOScale, ties to the even
\* mantissa: what the store into tex_coords[0] keeps of the sum of line 307
Float32Of(c, k) ==
    LET x == InUnits(k)
        g == Ulp(c, k)
        q == x.whole \div g
        r == x.whole % g
        odd == IF g = FineUnits THEN c % 2 = 1 ELSE q % 2 = 1
        up == \/ 2 * r > g
              \/ 2 * r = g /\ (~x.exact \/ odd)
        f == IF up THEN (q + 1) * g ELSE q * g
    IN  IF f = FineUnits THEN F32(c + 1, 0) ELSE F32(c, f)

\* lines 302-307: the setter; math.floor(self.tex_coords[0] * (2 ** 14)) is
\* the c of the coordinate
set_ambient_occlusion(vertex, value) ==
    LET u == vertex[3][1]
    IN  S3OVertex(vertex[1], vertex[2],
                  <<Float32Of(u.c, Clamped(value)), vertex[3][2]>>)

\* lines 296-300: the getter, (self.tex_coords[0] / 2 ** 14) % 1.0, in whole
\* units of 1 / FineUnits
ambient_occlusion(vertex) ==
    LET u == vertex[3][1]
        d == AOScale * AOScale
    IN  (u.c * (FineUnits \div d) + u.f \div d) % FineUnits

(***************************************************************************)
(* The calls of the ambient-occlusion property on the one vertex of a      *)
(* one-piece tree.  data holds the tex_coords before the first call, the   *)
(* value passed to the last setter call, the value returned by the last    *)
(* getter call and the number of setter calls.                             *)
(***************************************************************************)
MaxCalls == 3

\* math.floor(u * 2 ** 14) of the starting U coordinates: 0.0, 2 ** -14,
\* 0.25, 0.5, 1.0, 2.5, just below 32.0, 32.0 and 600.0
StartU == {0, 1, 4096, 8192, 16384, 40960, 524287, 524288, 9830400}

\* the values passed to the setter: -1.0, 0.0, 0.02, 0.26, 0.5, 0.98, 1.0, 2.0
AOValues == {0 - 50, 0, 1, 13, 25, 49, 50, 100}

AOVertex == tree[1].vertices[1]

InitAO ==
    /\ \E c \in StartU :
         tree = << [MkPiece(NameBase, Triangles, << >>, << >>)
                      EXCEPT !.vertices =
                          << S3OVertex(<<0, 0, 0>>, <<0, 1, 0>>,
                                       <<F32(c, 0), F32(AOScale \div 2, 0)>>) >>] >>
    /\ s3o = NoS3O
    /\ data = [tex_coords |-> tree[1].vertices[1][3], value |-> 0,
               returned |-> 0, calls |-> 0]
    /\ err = NoError
    /\ last = NoOp
    /\ prev = NoOp
    /\ pre = tree

SetAmbientOcclusion(value) ==
    /\ data.calls < MaxCalls
    /\ tree' = [tree EXCEPT ![1].vertices[1] = set_ambient_occlusion(AOVertex, value)]
    /\ data' = [data EXCEPT !.value = value, !.calls = @ + 1]
    /\ pre' = tree
    /\ prev' = last
    /\ last' = [op |-> "set_ambient_occlusion", piece |-> 1]
    /\ UNCHANGED <<s3o, err>>

GetAmbientOcclusion ==
    /\ last.op # "ambient_occlusion"
    /\ data' = [data EXCEPT !.returned = ambient_occlusion(AOVertex)]
    /\ pre' = tree
    /\ prev' = last
    /\ last' = [op |-> "ambient_occlusion", piece |-> 1]
    /\ UNCHANGED <<tree, s3o, err>>

NextAO ==
    \/ \E value \in AOValues : SetAmbientOcclusion(value)
    \/ GetAmbientOcclusion

SpecAO == InitAO /\ [][NextAO]_vars

(***************************************************************************)
(* Properties of the mesh passes.                                          *)
(***************************************************************************)
MeshOps ==
    {"triangulate_faces", "optimize_piece", "fix_zero_normals_piece",
     "recalculate_normals", "mergechildren"}

Optimized == last.op = "optimize_piece"

\* every index of the piece is a place of its vertex list, the end-of-strip
\* marker set aside
IndicesValid(piece) ==
    \A k \in 1..Len(piece.indices) :
        \/ piece.indices[k] \in 0..(Len(piece.vertices) - 1)
        \/ piece.indices[k] = EndOfStrip

\* C12: when every index of every piece is a place of that piece's vertex
\* list (end-of-strip markers aside) before triangulate_faces,
\* optimize_piece, fix_zero_normals_piece, recalculate_normals or
\* mergechildren, the same holds of every piece after it.
C12_IndexValidityPreserved ==
    (last.op \in MeshOps /\ \A p \in 1..Len(pre) : IndicesValid(pre[p]))
        => \A p \in 1..Len(tree) : IndicesValid(tree[p])

\* mergechildren has appended a child's indices, shifted past the vertices
\* the piece had, to a piece whose indices were valid
C12_Witness ==
    /\ last.op = "mergechildren"
    /\ \A p \in 1..Len(pre) : IndicesValid(pre[p])
    /\ Len(Before.vertices) > 0
    /\ Len(After.indices) > Len(Before.indices)
    /\ \E k \in 1..Len(After.indices) : After.indices[k] >= Len(Before.vertices)

\* M: the vertices that are exact duplicates of an earlier vertex of the list
Duplicates(vertices) ==
    Cardinality({i \in 1..Len(vertices) :
                   \E j \in 1..(i - 1) : vertices[j] = vertices[i]})

InRange(piece) ==
    \A k \in 1..Len(piece.indices) :
        piece.indices[k] \in 0..(Len(piece.vertices) - 1)

\* the vertex values the index list of the piece refers to
Referenced(piece) ==
    {piece.vertices[piece.indices[k] + 1] : k \in 1..Len(piece.indices)}

EveryVertexReferenced(piece) ==
    \A i \in 1..Len(piece.vertices) :
        \E k \in 1..Len(piece.indices) : piece.indices[k] = i - 1

ValueAt(piece, index) ==
    LET pos == PyPos(Len(piece.vertices), index)
    IN  IF pos = 0 THEN << >> ELSE piece.vertices[pos]

\* the triangles of the piece, each as the values of its corners
TrianglesByValue(piece) ==
    LET tris == Batched3(piece.indices)
    IN  [t \in 1..Len(tris) |->
            [c \in 1..Len(tris[t]) |-> ValueAt(piece, tris[t][c])]]

Count(s, x) == Cardinality({i \in 1..Len(s) : s[i] = x})

SameBag(s, t) ==
    /\ Len(s) = Len(t)
    /\ \A i \in 1..Len(s) : Count(s, s[i]) = Count(t, s[i])

\* C14: the triangles of a piece after optimize_piece, each taken as the
\* values (position, normal, tex_coords) of its three corners, are the same
\* multiset as before it.
C14_GeometryPreserved ==
    Optimized => SameBag(TrianglesByValue(Before), TrianglesByValue(After))

\* two triangles over a vertex list with a duplicate have been optimized:
\* the vertex list is shorter and the indices are renumbered
C14_Witness ==
    /\ Optimized
    /\ err = NoError
    /\ Len(Before.indices) = 6
    /\ Len(After.vertices) < Len(Before.vertices)
    /\ After.indices # Before.indices
    /\ TrianglesByValue(After)[1] # TrianglesByValue(After)[2]

\* C15: after optimize_piece every vertex of the piece is referenced by an
\* index, no two vertices of the piece are equal, and the index values make
\* their first appearances in the order 0, 1, 2, ..., len(vertices) - 1.
C15_DenseReindexing ==
    (Optimized /\ err = NoError)
        => /\ EveryVertexReferenced(After)
           /\ Duplicates(After.vertices) = 0
           /\ Distinct(After.indices) = [i \in 1..Len(After.vertices) |-> i - 1]

\* a piece whose index list began at a later vertex, skipped a vertex and
\* met a duplicate has been optimized, and two vertices are left
C15_Witness ==
    /\ Optimized
    /\ err = NoError
    /\ InRange(Before)
    /\ Len(Before.indices) > 0
    /\ Before.indices[1] # 0
    /\ ~EveryVertexReferenced(Before)
    /\ Duplicates(Before.vertices) > 0
    /\ Len(After.vertices) = 2

\* the index list of the piece after the dedup of lines 284-291
Deduplicated(piece) ==
    Remap(piece.vertices, piece.indices, 1, << >>, << >>).new_indices

ACMR(indices) == average_transform_to_vertex_ratio(Batched3(indices))

RECURSIVE Below(_, _)
Below(t, p) ==
    {p} \cup UNION {Below(t, t[p].children[c]) : c \in 1..Len(t[p].children)}

\* C17: after recursively_optimize_pieces has returned, no piece of the
\* tree it was called on that has more than 4 indices still holds two equal
\* vertices.
C17_RecursiveOptimizeDedups ==
    (last.op = "recursively_optimize_pieces" /\ err = NoError)
        => \A p \in Below(pre, last.piece) :
             Len(tree[p].indices) > 4 => Duplicates(tree[p].vertices) = 0

\* a normal shorter than 0.01
NearZero(normal) == 10000 * Length2(normal) < 1

\* the normal the repair is to give the vertex at place i (from 0) of a
\* piece of whole triangles: (0, 1, 0) when no index refers to it, else the
\* normalised cross product of the edges of the first triangle holding it,
\* or (0, 1, 0) when that cross product is shorter than 0.001
ExpectedNormal(piece, i) ==
    LET idxs == piece.indices
        P(k) == piece.vertices[idxs[k] + 1][1]
    IN  IF ~In(i, idxs) THEN DEFAULT_NORMAL
        ELSE LET f == CHOOSE g \in 0..((Len(idxs) \div 3) - 1) :
                        /\ i \in {idxs[3 * g + 1], idxs[3 * g + 2], idxs[3 * g + 3]}
                        /\ \A h \in 0..(g - 1) :
                             i \notin {idxs[3 * h + 1], idxs[3 * h + 2], idxs[3 * h + 3]}
                 new_normal == Cross(Minus(P(3 * f + 2), P(3 * f + 1)),
                                     Minus(P(3 * f + 3), P(3 * f + 1)))
             IN  IF 1000000 * Length2(new_normal) < 1 THEN DEFAULT_NORMAL
                 ELSE Normalized(new_normal)

WholeTriangles(piece) ==
    /\ piece.primitive_type.n = 0
    /\ Len(piece.indices) > 0
    /\ Len(piece.indices) % 3 = 0
    /\ InRange(piece)

\* C18: fix_zero_normals_piece gives every vertex whose normal is shorter
\* than 0.01 a new normal: (0, 1, 0) if no index refers to the vertex, else
\* the normalised cross product of the two edges of the first triangle that
\* holds it, or (0, 1, 0) when that cross product is shorter than 0.001; no
\* vertex of a piece with indices is left with a normal shorter than 0.01.
C18_ZeroNormalRepair ==
    (last.op = "fix_zero_normals_piece" /\ err = NoError /\ WholeTriangles(Before))
        => \A i \in 1..Len(Before.vertices) :
             /\ NearZero(Before.vertices[i][2])
                  => After.vertices[i][2] = ExpectedNormal(Before, i - 1)
             /\ ~NearZero(After.vertices[i][2])

(***************************************************************************)
(* Properties of the ambient-occlusion property.                           *)
(***************************************************************************)
\* 1e-4 in units of 1 / FineUnits
Tolerance == FineUnits \div 10000

Within(x, y) == x - y <= Tolerance /\ y - x <= Tolerance

\* C19: the getter returns the fractional part of tex_coords.u * 2^14; read
\* right after the setter was called with a value v, it returns v to within
\* 1e-4 when v is in [0.02, 0.98]; a value outside that range is packed as
\* the nearer end of the range.
C19_AORoundTrip ==
    /\ last.op = "ambient_occlusion"
         => data.returned = AOVertex[3][1].f
    /\ (last.op = "ambient_occlusion" /\ prev.op = "set_ambient_occlusion"
            /\ data.value = Clamped(data.value))
         => Within(data.returned, InUnits(data.value).whole)
    /\ last.op = "set_ambient_occlusion"
         => AOVertex = set_ambient_occlusion(pre[1].vertices[1], Clamped(data.value))

\* C20: after any sequence of setter calls, math.floor(u * 2^14) of the
\* vertex is what it was before the first call, and tex_coords.v is
\* unchanged.
C20_CoarseUNeverDrifts ==
    data.calls > 0
        => /\ AOVertex[3][1].c = data.tex_coords[1].c
           /\ AOVertex[3][2] = data.tex_coords[2]

(***************************************************************************)
(* Properties of emit pieces, of the texture paths and of the layout of    *)
(* the encoder.                                                            *)
(***************************************************************************)
\* an emit/aim piece: exactly two vertices and no index
Emit(piece) == Len(piece.vertices) = 2 /\ Len(piece.indices) = 0

\* C21: a piece with exactly 2 vertices and 0 indices keeps those 2
\* vertices, in order and unchanged, and keeps 0 indices through encode
\* then decode and through triangulate_faces, recursively_optimize_pieces
\* and fix_zero_normals_piece, and none of them raises on it.
C21_EmitPiecesSurvive ==
    /\ (Serialized /\ \E p \in 1..Len(tree) : Emit(tree[p]))
         => /\ err = NoError
            /\ LET r == S3O_init(data)
               IN  /\ r.err = NoError
                   /\ Len(r.tree) = Len(tree)
                   /\ \A p \in 1..Len(tree) :
                        Emit(tree[p]) => /\ r.tree[p].vertices = tree[p].vertices
                                         /\ r.tree[p].indices = << >>
    /\ last.op \in {"triangulate_faces", "recursively_optimize_pieces",
                    "fix_zero_normals_piece"}
         => /\ \A p \in 1..Len(pre) :
                 Emit(pre[p]) => /\ tree[p].vertices = pre[p].vertices
                                 /\ tree[p].indices = << >>
            /\ (Emit(Before) /\ Before.children = << >>) => err = NoError

\* the offset of texture i (1 or 2) in the header of buffer d
TexOffset(d, i) == ReadInt32(d, 40 + 4 * i)

\* the offsets of the NUL bytes of d at or after offset
NulsFrom(d, offset) == {i \in offset..(Len(d) - 1) : d[i + 1] = 0}

\* the bytes of d from offset up to, not including, the next NUL
UpToNul(d, offset) ==
    LET idx == CHOOSE i \in NulsFrom(d, offset) : \A j \in NulsFrom(d, offset) : i <= j
    IN  [k \in 1..(idx - offset) |-> d[offset + k]]

\* C22: a texture offset of 0 in the header decodes to the empty string
\* whatever the buffer holds, and a positive offset with a NUL byte at or
\* after it decodes to the bytes from the offset up to, not including, the
\* next NUL byte.
C22_TexturePaths ==
    (Decoded /\ HeaderValid(data))
        => \A i \in 1..2 :
             LET offset == TexOffset(data, i)
                 r == extract_null_terminated_string(data, offset)
             IN  /\ offset = 0
                      => /\ r = [str |-> << >>, err |-> NoError]
                         /\ r = extract_null_terminated_string(<< >>, offset)
                         /\ s3o.made => s3o.texture_paths[i] = << >>
                 /\ (offset > 0 /\ NulsFrom(data, offset) # {}
                        /\ \A k \in 1..Len(UpToNul(data, offset)) :
                              UpToNul(data, offset)[k] < 128)
                      => /\ r = [str |-> UpToNul(data, offset), err |-> NoError]
                         /\ s3o.made => s3o.texture_paths[i] = UpToNul(data, offset)

\* a file has been decoded whose first texture offset points at a path and
\* whose second texture offset is 0
C22_Witness ==
    /\ Decoded
    /\ s3o.made
    /\ TexOffset(data, 1) > 0
    /\ s3o.texture_paths[1] # << >>
    /\ TexOffset(data, 2) = 0
    /\ s3o.texture_paths[2] = << >>

\* the length of the piece's own block: header, name, child table, vertex
\* data and index data
OwnSize(piece) ==
    PieceSize + Len(piece.name) + 1 + IndexSize * Len(piece.children)
        + VertexSize * Len(piece.vertices) + IndexSize * Len(piece.indices)

\* the length of the blocks of piece p of t and of all its descendants
RECURSIVE SubtreeSize(_, _)
RECURSIVE SubtreeSizes(_, _, _)
SubtreeSizes(t, cs, k) ==
    IF k > Len(cs) THEN 0 ELSE SubtreeSize(t, cs[k]) + SubtreeSizes(t, cs, k + 1)

SubtreeSize(t, p) == OwnSize(t[p]) + SubtreeSizes(t, t[p].children, 1)

\* in buffer d, the subtree of piece p of t lies at offset o: entry i of
\* the child table holds the offset right after the piece's own block and
\* the subtrees of the children before child i, and child i lies there
RECURSIVE LaidOutAt(_, _, _, _)
LaidOutAt(d, t, p, o) ==
    LET cs == t[p].children
        table == o + PieceSize + Len(t[p].name) + 1
        at(i) == o + OwnSize(t[p]) + SubtreeSizes(t, SubSeq(cs, 1, i - 1), 1)
    IN  /\ Len(d) >= o + SubtreeSize(t, p)
        /\ ReadInt32(d, o + 4) = Len(cs)
        /\ ReadInt32(d, o + 8) = table
        /\ \A i \in 1..Len(cs) :
             /\ ReadInt32(d, table + IndexSize * (i - 1)) = at(i)
             /\ LaidOutAt(d, t, cs[i], at(i))

\* C23: S3OPiece.serialize returns, for a piece placed at offset o, bytes
\* in which entry i of the children-offset table is the offset at which
\* the header of child i begins, the children's subtrees follow the
\* piece's own block in declaration order without gaps, and whose length
\* is the sum of the blocks of the piece and of all its descendants.
C23_ChildOffsetFixUp ==
    Serialized
        => /\ err = NoError
           /\ LET o == Len(HeaderAndTextures(s3o))
              IN  /\ Len(data) = o + SubtreeSize(tree, 1)
                  /\ LaidOutAt(data, tree, 1, o)

\* in buffer d, the offsets written in the header at o of a piece are the
\* positions where its child table, vertex data and index data start, or
\* would start if it had any
RECURSIVE UnbiasedAt(_, _, _, _)
UnbiasedAt(d, t, p, o) ==
    LET children_offset == o + PieceSize + Len(t[p].name) + 1
        vertex_offset == children_offset + IndexSize * Len(t[p].children)
        index_offset == vertex_offset + VertexSize * Len(t[p].vertices)
    IN  /\ Len(d) >= o + PieceSize
        /\ ReadInt32(d, o) = o + PieceSize
        /\ ReadInt32(d, o + 8) = children_offset
        /\ ReadInt32(d, o + 16) = vertex_offset
        /\ ReadInt32(d, o + 32) = index_offset
        /\ \A i \in 1..Len(t[p].children) :
             /\ Len(d) >= children_offset + IndexSize * i
             /\ UnbiasedAt(d, t, t[p].children[i],
                           ReadInt32(d, children_offset + IndexSize * (i - 1)))

\* the encoder's half of C24
EncoderUnbiased ==
    Serialized
        => /\ err = NoError
           /\ UnbiasedAt(data, tree, 1, Len(HeaderAndTextures(s3o)))

\* the decoder's half of C24, for the root piece: its name is read at its
\* name offset, whatever the offset is
DecoderReadsNameAtOffset ==
    (Decoded /\ s3o.made)
        => LET name_offset == ReadInt32(data, EffOffset(data, ReadInt32(data, 36)))
           IN  (name_offset >= 0 /\ NulsFrom(data, name_offset) # {})
                  => tree[1].name = UpToNul(data, name_offset)

\* C24: the encoder writes the offsets without the one-byte-back bias (for
\* a piece without children, vertices or indices the written offset is the
\* position where that data would start), and the decoder treats an offset
\* of 0 in a field other than the texture offsets, the name offset of a
\* piece included, like any other offset.
C24_EmptyOffsetPolicy ==
    /\ EncoderUnbiased
    /\ DecoderReadsNameAtOffset

(***************************************************************************)
(* The decoder, one piece read at a step.  S3OPiece.__init__ calls itself  *)
(* for every entry of the child table (lines 367-371), so the call stack   *)
(* is part of the state: `pre` holds the frames of the S3OPiece.__init__   *)
(* calls in progress, the innermost last, `tree` the pieces constructed so *)
(* far, `prev.piece` the number of piece reads begun.  A frame holds the   *)
(* piece being constructed (`id`, 0 until the header is read), the offset  *)
(* the call was given, and the state of the loop over the child table.     *)
(* CPython raises RecursionError when the stack is deeper than             *)
(* sys.getrecursionlimit().                                                *)
(***************************************************************************)
RecursionLimit == 4

Call(offset) ==
    [id |-> 0, offset |-> offset, children_offset |-> 0, num_children |-> 0, i |-> 0]

Top == pre[Len(pre)]

Decoding == last.op = "S3OPiece"

\* an exception leaves every frame: the S3O(data) call ends with it
Unwind_Retry(e) == UNCHANGED vars

Unwind(e) ==
    /\ err' = e
    /\ pre' = << >>
    /\ last' = [op |-> "S3O", piece |-> 0]
    /\ UNCHANGED <<tree, s3o, data, prev>>

\* S3O.__init__ up to the call of line 545: the header and the texture paths
S3O_enter ==
    /\ last = NoOp
    /\ LET magic == SubSeq(data, 1, 12)
           version == ReadInt32(data, 12)
           root_piece_offset == ReadInt32(data, 36)
           collision_data_offset == ReadInt32(data, 40)
           tex1 == extract_null_terminated_string(data, ReadInt32(data, 44))
           tex2 == extract_null_terminated_string(data, ReadInt32(data, 48))
       IN  IF ~UnpackFits(data, 0, HeaderSize) THEN Unwind("struct.error")
           ELSE IF ~HeaderAsserts(magic, version, collision_data_offset)
                THEN Unwind("AssertionError")
           ELSE IF tex1.err # NoError THEN Unwind(tex1.err)
           ELSE IF tex2.err # NoError THEN Unwind(tex2.err)
           ELSE /\ pre' = <<Call(root_piece_offset)>>
                /\ last' = [op |-> "S3OPiece", piece |-> 0]
                /\ UNCHANGED <<tree, s3o, data, err, prev>>

\* S3OPiece.__init__ from its entry to line 366: the header, the name, the
\* vertices and the indices of the piece at the offset of the call
S3OPiece_enter ==
    /\ Decoding
    /\ pre # << >>
    /\ Top.id = 0
    /\ LET offset == Top.offset
           o == EffOffset(data, offset)
           name_offset == ReadInt32(data, o)
           num_children == ReadInt32(data, o + 4)
           children_offset == ReadInt32(data, o + 8)
           num_vertices == ReadInt32(data, o + 12)
           vertex_offset == ReadInt32(data, o + 16)
           primitive_type == ReadInt32(data, o + 24)
           num_indices == ReadInt32(data, o + 28)
           index_offset == ReadInt32(data, o + 32)
           name == extract_null_terminated_string(data, name_offset)
           vat(i) == vertex_offset + VertexSize * i
           iat(i) == index_offset + IndexSize * i
           self ==
             [name |-> name.str,
              parent_offset |-> <<ReadFloat32(data, o + 40), ReadFloat32(data, o + 44),
                                  ReadFloat32(data, o + 48)>>,
              primitive_type |-> RawInt(primitive_type),
              vertices |-> [k \in 1..num_vertices |->
                               ReadVertex(data, EffOffset(data, vat(k - 1)))],
              indices |-> [k \in 1..num_indices |->
                               ReadInt32(data, EffOffset(data, iat(k - 1)))],
              children |-> << >>]
       IN  IF Len(pre) > RecursionLimit THEN Unwind("RecursionError")
           ELSE IF ~UnpackFits(data, offset, PieceSize) THEN Unwind("struct.error")
           ELSE IF name.err # NoError THEN Unwind(name.err)
           ELSE IF \E i \in Range0(num_vertices) : ~UnpackFits(data, vat(i), VertexSize)
                THEN Unwind("struct.error")
           ELSE IF \E i \in Range0(num_indices) : ~UnpackFits(data, iat(i), IndexSize)
                THEN Unwind("struct.error")
           ELSE /\ tree' = Append(tree, self)
                /\ pre' = [pre EXCEPT ![Len(pre)] =
                              [id |-> Len(tree) + 1, offset |-> offset,
                               children_offset |-> children_offset,
                               num_children |-> num_children, i |-> 0]]
                /\ prev' = [prev EXCEPT !.piece = @ + 1]
                /\ last' = [op |-> "S3OPiece", piece |-> Len(tree) + 1]
                /\ UNCHANGED <<s3o, data, err>>

\* lines 368-371 up to the call: the next entry of the child table
S3OPiece_child ==
    /\ Decoding
    /\ pre # << >>
    /\ Top.id # 0
    /\ Top.i < Top.num_children
    /\ LET cur_offset == Top.children_offset + IndexSize * Top.i
       IN  IF ~UnpackFits(data, cur_offset, IndexSize) THEN Unwind("struct.error")
           ELSE /\ pre' = Append(pre, Call(ReadInt32(data, EffOffset(data, cur_offset))))
                /\ UNCHANGED <<tree, s3o, data, err, last, prev>>

\* the end of S3OPiece.__init__: the piece is appended to its parent's
\* children (line 371), or is the root piece of the model (lines 545-547)
S3OPiece_return ==
    /\ Decoding
    /\ pre # << >>
    /\ Top.id # 0
    /\ Top.i >= Top.num_children
    /\ IF Len(pre) = 1
       THEN /\ s3o' = [made |-> TRUE,
                       collision_radius |-> ReadFloat32(data, 16),
                       height |-> ReadFloat32(data, 20),
                       midpoint |-> <<ReadFloat32(data, 24), ReadFloat32(data, 28),
                                      ReadFloat32(data, 32)>>,
                       texture_paths |->
                          <<extract_null_terminated_string(data, ReadInt32(data, 44)).str,
                            extract_null_terminated_string(data, ReadInt32(data, 48)).str>>]
            /\ pre' = << >>
            /\ last' = [op |-> "S3O", piece |-> 0]
            /\ UNCHANGED <<tree, data, err, prev>>
       ELSE LET parent == pre[Len(pre) - 1]
            IN  /\ tree' = [tree EXCEPT ![parent.id].children = Append(@, Top.id)]
                /\ pre' = [SubSeq(pre, 1, Len(pre) - 1) EXCEPT ![Len(pre) - 1].i = @ + 1]
                /\ UNCHANGED <<s3o, data, err, last, prev>>

InitDecode ==
    /\ s3o = NoS3O
    /\ tree = << >>
    /\ \/ data \in GoodFiles
       \/ \E d \in SmallFiles :
            \/ \E pos \in 0..(Len(d) - 4), val \in DamagedValues(d) :
                  data = PatchInt32(d, pos, val)
            \/ \E n \in 0..(Len(d) - 1) : data = SubSeq(d, 1, n)
    /\ err = NoError
    /\ last = NoOp
    /\ prev = NoOp
    /\ pre = << >>

NextDecode == S3O_enter \/ S3OPiece_enter \/ S3OPiece_child \/ S3OPiece_return

\* the decoder is one thread of straight-line code: nothing suspends it
SpecDecode == InitDecode /\ [][NextDecode]_vars /\ WF_vars(NextDecode)

\* the S3O(data) call has ended
DecodeEnded == last.op = "S3O"

\* the piece reads of one decode: no more than the recursion limit allows
\* on every path of the largest tree of pieces the child tables can describe
RECURSIVE Power(_, _)
Power(b, e) == IF e = 0 THEN 1 ELSE b * Power(b, e - 1)

MaxReads == Power(2, RecursionLimit) - 1

\* the step-wise decoder ends as the decoder taken as one step does
StepwiseAgreesWithS3O_init ==
    DecodeEnded
        => LET r == S3O_init(data)
           IN  /\ err = r.err
               /\ s3o = r.s3o
               /\ s3o.made => tree = r.tree

\* C26: the decode of any buffer, one whose child table points back at the
\* piece's own header or at an ancestor's included, ends after finitely
\* many piece reads, and it ends with a model or with an error.
C26_DecodeTerminates ==
    <>(/\ DecodeEnded
       /\ s3o.made <=> err = NoError
       /\ prev.piece <= MaxReads)

\* a child table entry pointed back at a header being read: the decode has
\* ended, with an error, after as many piece reads as the stack allows
C26_Witness ==
    /\ DecodeEnded
    /\ err = "RecursionError"
    /\ prev.piece = RecursionLimit

\* the last pass was recalculate_normals, on a triangulated piece that has
\* more than 4 indices, each a place of its vertex list
RecalculatedTriangles ==
    /\ last.op = "recalculate_normals"
    /\ Before.primitive_type = Triangles
    /\ Len(Before.indices) > 4
    /\ Len(Before.indices) % 3 = 0
    /\ InRange(Before)

\* vertex k of the piece is the vertex the k-th original index referred to,
\* and the indices count up from 0
Exploded ==
    /\ Len(After.vertices) = Len(Before.indices)
    /\ After.indices = [k \in 1..Len(Before.indices) |-> k - 1]
    /\ \A k \in 1..Len(Before.indices) :
         /\ After.vertices[k][1] = Before.vertices[Before.indices[k] + 1][1]
         /\ After.vertices[k][3] = Before.vertices[Before.indices[k] + 1][3]

\* the call with recursive = False leaves every other piece as it was
ChildrenUntouched ==
    LET r == recalculate_normals(pre, last.piece, FALSE)
    IN  \A q \in 1..Len(pre) : q # last.piece => r.tree[q] = pre[q]

\* C25: recalculate_normals, run on a triangulated piece with more than 4
\* indices, returns with the shared vertices exploded: as many vertices as
\* indices, the indices 0, 1, ..., n-1, vertex k with the position and UV of
\* the vertex the k-th original index referred to; with recursive = False
\* no child piece is modified.
C25_ExplodesSharedVertices ==
    RecalculatedTriangles
        => /\ err = NoError
           /\ Exploded
           /\ ChildrenUntouched

Merged == last.op = "mergechildren"

\* the vertex moved by a parent_offset: position translated, normal and UV kept
Translated(vertex, parent_offset) ==
    <<<<vertex[1][1] + parent_offset[1], vertex[1][2] + parent_offset[2],
        vertex[1][3] + parent_offset[3]>>, vertex[2], vertex[3]>>

\* the vertices of the children cs[k], cs[k + 1], ... as they are after the
\* pass, each child's moved by the parent_offset the child had
RECURSIVE ChildBlocks(_, _)
ChildBlocks(cs, k) ==
    IF k > Len(cs) THEN << >>
    ELSE [j \in 1..Len(tree[cs[k]].vertices) |->
             Translated(tree[cs[k]].vertices[j], pre[cs[k]].parent_offset)]
         \o ChildBlocks(cs, k + 1)

\* how many vertices (what = "vertices") or indices the children before
\* cs[k] hold after the pass
RECURSIVE HeldBefore(_, _, _)
HeldBefore(cs, k, what) ==
    IF k <= 1 THEN 0
    ELSE HeldBefore(cs, k - 1, what)
           + (IF what = "vertices" THEN Len(tree[cs[k - 1]].vertices)
                                   ELSE Len(tree[cs[k - 1]].indices))

\* piece q, merged: no children, its vertices followed by the children's
\* blocks, and every index of a child taken over so that it refers to the
\* translated value of the vertex it referred to in the child
Flattened(q) ==
    LET cs == pre[q].children
    IN  /\ tree[q].children = << >>
        /\ tree[q].vertices = pre[q].vertices \o ChildBlocks(cs, 1)
        /\ SubSeq(tree[q].indices, 1, Len(pre[q].indices)) = pre[q].indices
        /\ Len(tree[q].indices)
             = Len(pre[q].indices) + HeldBefore(cs, Len(cs) + 1, "indices")
        /\ \A j \in 1..Len(cs) :
             LET child == tree[cs[j]]
                 at == Len(pre[q].indices) + HeldBefore(cs, j, "indices")
                 block == Len(pre[q].vertices) + HeldBefore(cs, j, "vertices")
             IN  \A k \in 1..Len(child.indices) :
                   /\ tree[q].indices[at + k] = child.indices[k] + block
                   /\ child.indices[k] \in 0..(Len(child.vertices) - 1)
                        => tree[q].vertices[tree[q].indices[at + k] + 1]
                             = Translated(child.vertices[child.indices[k] + 1],
                                          pre[cs[j]].parent_offset)

\* C27: after piece.mergechildren() the piece has no children; its vertices
\* are its original vertices followed, child by child in declaration order,
\* by each child's already merged vertices, the position moved by the
\* child's parent_offset, normal and UV unchanged; an index taken over from
\* a child refers to the translated value of the vertex it referred to in
\* the child.  The same holds of every piece below it, each merged first.
C27_MergeChildrenLossless ==
    Merged => \A q \in Below(pre, last.piece) : Flattened(q)

\* a piece has taken over the vertices and indices of a child that was
\* moved and that had taken over those of a child of its own
C27_Witness ==
    /\ Merged
    /\ Before.vertices # << >>
    /\ \E j \in 1..Len(Before.children) :
         LET c == Before.children[j]
         IN  /\ pre[c].children # << >>
             /\ pre[c].parent_offset # <<0, 0, 0>>
             /\ Len(tree[c].vertices) > Len(pre[c].vertices)
             /\ tree[c].indices # << >>
             /\ Len(After.indices) > Len(Before.indices)

(***************************************************************************)
(* The depsgraph listeners and the property groups they drive.             *)
(*                                                                         *)
(* Blender calls every handler of depsgraph_update_post after a dependency *)
(* graph evaluation; src/app_handler.py and src/s3o_props.py each register *)
(* a handler named s3o_placeholder_depsgraph_listener, each with its own   *)
(* module globals responding_to_depsgraph and insanity_counter.  The       *)
(* property groups are those of src/props.py, the module that defines the  *)
(* update() the listener of app_handler.py calls.  A write to a property   *)
(* declared with update=update makes Blender call update(self, context)    *)
(* before the write returns; a write to an object can make Blender run the *)
(* handlers before it returns (a nested invocation).  Everything runs on   *)
(* one thread, so the state is a call stack:                               *)
(*   pre   the frames of the calls in progress, the innermost last         *)
(*   data  the module globals of the two listeners                         *)
(*   tree  the scene: the root object R with its placeholders Pm and Ph,   *)
(*         the aim point A with its placeholder Pa (an object is a record  *)
(*         of its property group, a placeholder is its position)           *)
(*   s3o   the order in which the handlers are registered                  *)
(*   err   the exception being raised, NoError if none                     *)
(*   prev  the events so far and what has happened in them                 *)
(* A frame holds the function (fn), the module of a listener (mod), the    *)
(* object whose property group is self (obj), the placeholder passed       *)
(* (arg), who called ("rna": Blender, for a property write), the place in  *)
(* the function (pc), and the update list and loop index of a listener.    *)
(***************************************************************************)
MaxEvents == 2

\* the places a placeholder can be at, and the values of the property it
\* stands for
Positions == {0, 1}

Modules == {"app_handler", "s3o_props"}
Placeholders == {"Pm", "Ph", "Pa"}
UpdateLists ==
    { << >>, <<"Pm">>, <<"Ph">>, <<"Pa">>, <<"R">>, <<"A">>, <<"Pm", "R">> }

\* obj.parent of a placeholder, and the property its position stands for
ParentOf(p) == IF p = "Pa" THEN "A" ELSE "R"
FieldOf(p) == IF p = "Ph" THEN "height" ELSE "value"

\* S3ORootProperties.poll, S3OAimPointProperties.poll: the object is still
\* an empty of the type
RootPoll(o) == o = "R" /\ tree["R"].poll
AimPoll(o) == o = "A" /\ tree["A"].poll

\* lines 7-8 of app_handler.py, lines 183-184 of s3o_props.py
Globals0 == [responding_to_depsgraph |-> FALSE, insanity_counter |-> 0]

Frame(fn, mod, obj, arg, via, updates) ==
    [fn |-> fn, mod |-> mod, obj |-> obj, arg |-> arg, via |-> via,
     pc |-> "enter", updates |-> updates, k |-> 1]

\* Blender runs the handlers in the order of the list: the first on top
HandlerFrames(updates) ==
    << Frame("listener", s3o.handlers[2], "", "", "handler", updates),
       Frame("listener", s3o.handlers[1], "", "", "handler", updates) >>

Return == SubSeq(pre, 1, Len(pre) - 1)

At(pc) == [pre EXCEPT ![Len(pre)].pc = pc]

Running == pre # << >> /\ err = NoError

\* the guard of update and of update_from_placeholder
\* a plausible slip: the guard is left out
BeingUpdated_Ignored(props) == FALSE

BeingUpdated(props) == props.being_updated

\* the finally block of a listener
\* a plausible slip: the flag is not reset
Finally_KeepsFlag(g) == [g EXCEPT !.insanity_counter = @ - 1]

Finally(g) ==
    [responding_to_depsgraph |-> FALSE, insanity_counter |-> g.insanity_counter - 1]

\* where an exception that leaves the innermost frame goes: Blender prints
\* the exception of a handler or of a call it made itself and goes on
Raised(e) ==
    IF Len(pre) = 1 \/ Top.via = "handler" THEN {NoError}
    ELSE IF Top.via = "rna" THEN {NoError, e}
    ELSE {e}

InitListener ==
    /\ \E rp \in BOOLEAN, ap \in BOOLEAN :
         tree = [R |-> [being_updated |-> FALSE, poll |-> rp, value |-> 0, height |-> 0],
                 A |-> [being_updated |-> FALSE, poll |-> ap, value |-> 0, height |-> 0],
                 Pm |-> 0, Ph |-> 0, Pa |-> 0]
    /\ \E first \in Modules :
         s3o = [made |-> FALSE, handlers |-> <<first, CHOOSE m \in Modules : m # first>>]
    /\ data = [app_handler |-> Globals0, s3o_props |-> Globals0]
    /\ pre = << >>
    /\ err = NoError
    /\ last = NoOp
    /\ prev = [events |-> 0, nested |-> FALSE, raised |-> FALSE, empty |-> FALSE,
               refused |-> FALSE, chain |-> FALSE]

(* what Blender and the user do *)

\* the user drags a placeholder; the handlers run with it first in the list
UserMovesPlaceholder ==
    /\ pre = << >>
    /\ prev.events < MaxEvents
    /\ \E p \in Placeholders, v \in Positions :
         /\ tree' = [tree EXCEPT ![p] = v]
         /\ pre' = HandlerFrames(<<p>>)
    /\ prev' = [prev EXCEPT !.events = @ + 1]
    /\ UNCHANGED <<s3o, data, err, last>>

\* the user types a value into a property of the panel: Blender writes it
\* and calls update(self, context)
UserEditsProperty ==
    /\ pre = << >>
    /\ prev.events < MaxEvents
    /\ \E o \in {"R", "A"}, v \in Positions :
         /\ tree' = [tree EXCEPT ![o].value = v]
         /\ pre' = <<Frame("update", "props", o, "", "rna", << >>)>>
    /\ prev' = [prev EXCEPT !.events = @ + 1]
    /\ UNCHANGED <<s3o, data, err, last>>

\* a dependency graph evaluation, between two calls or inside a write to
\* an object that a call in progress has made
DepsgraphUpdate ==
    /\ err = NoError
    /\ prev.events < MaxEvents
    /\ \/ pre = << >>
       \/ /\ pre # << >>
          /\ \/ Top.fn = "update" /\ Top.pc \in {"move2", "finally"}
             \/ Top.fn = "update_from_placeholder" /\ Top.pc \in {"write", "written"}
    /\ \E updates \in UpdateLists : pre' = pre \o HandlerFrames(updates)
    /\ prev' = [prev EXCEPT !.events = @ + 1]
    /\ UNCHANGED <<tree, s3o, data, err, last>>

(* s3o_placeholder_depsgraph_listener *)

\* the calls in progress are those of the chain: a listener has called
\* update_from_placeholder, whose property write has made Blender call
\* update, which is between its try and the end of its finally
InChain ==
    \E i \in 3..Len(pre) :
        /\ pre[i].fn = "update" /\ pre[i].pc \in {"move2", "finally"}
        /\ pre[i - 1].fn = "update_from_placeholder"
        /\ pre[i - 2].fn = "listener" /\ pre[i - 2].mod = Top.mod

\* the guard, and in s3o_props.py the return before the try
ListenerGuard ==
    /\ Running
    /\ Top.fn = "listener" /\ Top.pc = "enter"
    /\ IF data[Top.mod].responding_to_depsgraph
       THEN /\ pre' = Return
            /\ prev' = [prev EXCEPT !.nested = TRUE, !.chain = @ \/ InChain]
       ELSE /\ IF Top.mod = "s3o_props"
                  /\ (Top.updates = << >> \/ Top.updates[1] \notin Placeholders)
               THEN pre' = Return
               ELSE pre' = At("try")
            /\ UNCHANGED prev
    /\ UNCHANGED <<tree, s3o, data, err, last>>

\* the head of the try block: warnings.warn_explicit is called with the
\* message alone and raises TypeError, inside the try
ListenerTry ==
    /\ Running
    /\ Top.fn = "listener" /\ Top.pc = "try"
    /\ LET g == data[Top.mod]
       IN  IF g.insanity_counter # 0
           THEN /\ data' = [data EXCEPT ![Top.mod] = Finally(g)]
                /\ pre' = Return
           ELSE /\ data' = [data EXCEPT ![Top.mod] =
                               [responding_to_depsgraph |-> TRUE,
                                insanity_counter |-> g.insanity_counter + 1]]
                /\ pre' = At("first")
    /\ UNCHANGED <<tree, s3o, err, last, prev>>

\* the first update of the list: a placeholder makes the listener call
\* update_from_placeholder of its parent's property group
ListenerFirst ==
    /\ Running
    /\ Top.fn = "listener" /\ Top.pc = "first"
    /\ LET next == IF Top.mod = "app_handler" THEN "roots" ELSE "finally"
           obj == Top.updates[1]
           parent == ParentOf(obj)
           call == Append(At(next),
                          Frame("update_from_placeholder", "props", parent, obj,
                                "call", << >>))
       IN  IF Top.updates = << >>
           THEN /\ pre' = At("finally")
                /\ prev' = [prev EXCEPT !.empty = TRUE]
           ELSE /\ UNCHANGED prev
                /\ IF obj \notin Placeholders THEN pre' = At(next)
                   ELSE IF RootPoll(parent) /\ ~tree[parent].being_updated
                        THEN pre' = call
                   ELSE IF AimPoll(parent)
                           /\ (Top.mod = "s3o_props" \/ ~tree[parent].being_updated)
                        THEN pre' = call
                   ELSE pre' = At(next)
    /\ UNCHANGED <<tree, s3o, data, err, last>>

\* the two loops of app_handler.py over the roots and the aim points of
\* the update list
ListenerLoop ==
    /\ Running
    /\ Top.fn = "listener" /\ Top.pc \in {"roots", "aims"}
    /\ LET k == Top.k
           polled(o) == IF Top.pc = "roots" THEN RootPoll(o) ELSE AimPoll(o)
           stepped == [pre EXCEPT ![Len(pre)].k = k + 1]
       IN  IF k > Len(Top.updates)
           THEN pre' = [pre EXCEPT ![Len(pre)].k = 1,
                                   ![Len(pre)].pc = IF Top.pc = "roots" THEN "aims"
                                                    ELSE "finally"]
           ELSE IF polled(Top.updates[k]) /\ ~tree[Top.updates[k]].being_updated
                THEN pre' = Append(stepped,
                                   Frame("update", "props", Top.updates[k], "", "call",
                                         << >>))
                ELSE pre' = stepped
    /\ UNCHANGED <<tree, s3o, data, err, last, prev>>

ListenerFinally ==
    /\ Running
    /\ Top.fn = "listener" /\ Top.pc = "finally"
    /\ data' = [data EXCEPT ![Top.mod] = Finally(data[Top.mod])]
    /\ pre' = Return
    /\ UNCHANGED <<tree, s3o, err, last, prev>>

\* a call made by the listener has raised: the finally block, and Blender
\* prints the exception
ListenerExcept ==
    /\ pre # << >> /\ err # NoError
    /\ Top.fn = "listener"
    /\ data' = [data EXCEPT ![Top.mod] = Finally(data[Top.mod])]
    /\ pre' = Return
    /\ err' = NoError
    /\ prev' = [prev EXCEPT !.raised = TRUE]
    /\ UNCHANGED <<tree, s3o, last>>

(* update(self, context) of S3ORootProperties and S3OAimPointProperties *)

UpdateEnter ==
    /\ Running
    /\ Top.fn = "update" /\ Top.pc = "enter"
    /\ IF BeingUpdated(tree[Top.obj])
       THEN /\ pre' = Return
            /\ prev' = [prev EXCEPT !.refused = TRUE]
            /\ UNCHANGED <<tree, err>>
       ELSE IF ~tree[Top.obj].poll
       THEN /\ pre' = Return
            /\ err' \in Raised("ValueError")
            /\ UNCHANGED <<tree, prev>>
       ELSE /\ tree' = [tree EXCEPT ![Top.obj].being_updated = TRUE]
            /\ pre' = At("move")
            /\ UNCHANGED <<err, prev>>
    /\ UNCHANGED <<s3o, data, last>>

\* the placeholders are put where the properties say; a call into Blender
\* can raise (the placeholder was deleted), and the finally block runs
UpdateMove ==
    /\ Running
    /\ Top.fn = "update" /\ Top.pc \in {"move", "move2"}
    /\ \/ /\ tree' = [tree EXCEPT ![Top.obj].being_updated = FALSE]
          /\ pre' = Return
          /\ err' \in Raised("ReferenceError")
       \/ /\ err' = err
          /\ IF Top.obj = "A"
             THEN /\ tree' = [tree EXCEPT !["Pa"] = tree["A"].value]
                  /\ pre' = At("finally")
             ELSE IF Top.pc = "move"
             THEN /\ tree' = [tree EXCEPT !["Pm"] = tree["R"].value]
                  /\ pre' = At("move2")
             ELSE /\ tree' = [tree EXCEPT !["Ph"] = tree["R"].height]
                  /\ pre' = At("finally")
    /\ UNCHANGED <<s3o, data, last, prev>>

UpdateFinally ==
    /\ Running
    /\ Top.fn = "update" /\ Top.pc = "finally"
    /\ tree' = [tree EXCEPT ![Top.obj].being_updated = FALSE]
    /\ pre' = Return
    /\ UNCHANGED <<s3o, data, err, last, prev>>

(* update_from_placeholder(self, tag, obj) *)

UpdateFromPlaceholderEnter ==
    /\ Running
    /\ Top.fn = "update_from_placeholder" /\ Top.pc = "enter"
    /\ IF BeingUpdated(tree[Top.obj])
       THEN /\ pre' = Return
            /\ prev' = [prev EXCEPT !.refused = TRUE]
       ELSE /\ \/ Top.arg = "Pm" /\ pre' = At("radius")
               \/ pre' = At("write")
            /\ UNCHANGED prev
    /\ UNCHANGED <<tree, s3o, data, err, last>>

\* a property is written, and Blender calls update(self, context): the
\* collision radius of a scaled placeholder first (its value is not kept
\* in the model), then the property the placeholder stands for
UpdateFromPlaceholderWrite ==
    /\ Running
    /\ Top.fn = "update_from_placeholder" /\ Top.pc \in {"radius", "write"}
    /\ tree' = IF Top.pc = "radius" THEN tree
               ELSE [tree EXCEPT ![Top.obj][FieldOf(Top.arg)] = tree[Top.arg]]
    /\ pre' = Append(At(IF Top.pc = "radius" THEN "write" ELSE "written"),
                     Frame("update", "props", Top.obj, "", "rna", << >>))
    /\ UNCHANGED <<s3o, data, err, last, prev>>

UpdateFromPlaceholderReturn ==
    /\ pre # << >>
    /\ Top.fn = "update_from_placeholder"
    /\ \/ err = NoError /\ Top.pc = "written"
       \/ err # NoError
    /\ pre' = Return
    /\ UNCHANGED <<tree, s3o, data, err, last, prev>>

\* the steps of the calls in progress
RunListener ==
    \/ ListenerGuard
    \/ ListenerTry
    \/ ListenerFirst
    \/ ListenerLoop
    \/ ListenerFinally
    \/ ListenerExcept
    \/ UpdateEnter
    \/ UpdateMove
    \/ UpdateFinally
    \/ UpdateFromPlaceholderEnter
    \/ UpdateFromPlaceholderWrite
    \/ UpdateFromPlaceholderReturn

NextListener ==
    \/ UserMovesPlaceholder
    \/ UserEditsProperty
    \/ DepsgraphUpdate
    \/ RunListener

\* Python runs a call to its end: the steps of the calls in progress are
\* taken as long as there is one; what the user and Blender do is not forced
SpecListener == InitListener /\ [][NextListener]_vars /\ WF_vars(RunListener)

\* an invocation of the listener of the module is executing: it has passed
\* the guard
Executing(mod) ==
    \E i \in 1..Len(pre) :
        pre[i].fn = "listener" /\ pre[i].mod = mod /\ pre[i].pc # "enter"

\* C28: whenever no invocation of a listener is executing, its
\* responding_to_depsgraph is False and its insanity_counter is 0, whatever
\* invocations came before (nested ones, ones with an empty update list,
\* ones in which an update raised); and insanity_counter is 0 whenever an
\* invocation has passed the guard.
C28_ListenerGuardState ==
    \A mod \in Modules :
        /\ ~Executing(mod) => data[mod] = Globals0
        /\ \A i \in 1..Len(pre) :
             (pre[i].fn = "listener" /\ pre[i].mod = mod /\ pre[i].pc = "try")
                => data[mod].insanity_counter = 0

\* no call is in progress, after a nested invocation has returned at the
\* guard, an invocation has had an empty update list and an update called
\* by a listener has raised
C28_Witness ==
    /\ pre = << >>
    /\ prev.nested /\ prev.empty /\ prev.raised
    /\ \A mod \in Modules : data[mod] = Globals0

\* update is between its try and the end of its finally
InTry(frame) == frame.fn = "update" /\ frame.pc \in {"move", "move2", "finally"}

\* a listener invoked while an invocation of it is executing calls nothing
NestedListenerCallsNothing ==
    \A i \in 1..Len(pre) : \A j \in (i + 1)..Len(pre) :
        (/\ pre[i].fn = "listener" /\ pre[j].fn = "listener"
         /\ pre[i].mod = pre[j].mod
         /\ pre[i].pc # "enter")
            => pre[j].pc = "enter"

\* an update or update_from_placeholder called during an update of the same
\* property group gets no further than its guard
CallsDuringUpdateStopAtGuard ==
    \A i \in 1..Len(pre) : \A j \in (i + 1)..Len(pre) :
        (/\ InTry(pre[i])
         /\ pre[j].fn \in {"update", "update_from_placeholder"}
         /\ pre[j].obj = pre[i].obj)
            => pre[j].pc = "enter"

\* being_updated is True only during an update of the property group
BeingUpdatedOnlyDuringUpdate ==
    \A o \in {"R", "A"} :
        tree[o].being_updated
            => \E i \in 1..Len(pre) : InTry(pre[i]) /\ pre[i].obj = o

\* the step of a call that finds being_updated True: it returns
RefusedStep ==
    /\ pre # << >>
    /\ Top.fn \in {"update", "update_from_placeholder"}
    /\ Top.pc = "enter"
    /\ tree[Top.obj].being_updated
    /\ pre' # pre

\* C29: a listener invoked while it is executing returns without calling
\* an update; an update or update_from_placeholder that arrives while
\* being_updated is True returns without changing a property or a
\* placeholder; being_updated is False once the outermost update has
\* returned, normally or by exception; and every chain of calls ends.
C29_NoInfiniteUpdateRecursion ==
    /\ [](/\ NestedListenerCallsNothing
          /\ CallsDuringUpdateStopAtGuard
          /\ BeingUpdatedOnlyDuringUpdate)
    /\ [][RefusedStep => (tree' = tree /\ data' = data /\ pre' = Return)]_vars
    /\ (pre # << >>) ~> (pre = << >> /\ ~tree["R"].being_updated
                                     /\ ~tree["A"].being_updated)

\* the chain of the claim has run to its end: update_from_placeholder has
\* written a property, update has moved the placeholder, a listener invoked
\* in the middle has returned at its guard, and a call that found
\* being_updated True has returned
C29_Witness ==
    /\ pre = << >>
    /\ prev.chain /\ prev.refused
    /\ ~tree["R"].being_updated /\ ~tree["A"].being_updated

(***************************************************************************)
(* ExplodeObjectsForBake (src/ambient_occlusion.py lines 194-214) around   *)
(* the bake loop of BakeVertexAO.execute (lines 376-451).                  *)
(*   tree  the scene: for every object its world matrix, of which the z    *)
(*         translation is kept, whether it is a bake target (a mesh that   *)
(*         ao_targets_iter yields), whether an entry of objects_to_explode *)
(*         names it, and whether it exists ("dup" is the duplicate a bake  *)
(*         step works on)                                                  *)
(*   data  the context manager: ao_dist, original_matrices (a dict: the    *)
(*         pairs in insertion order) and the place of the bake loop        *)
(*   pre   the scene before __enter__                                      *)
(*   err   the exception the with-block was left with                      *)
(***************************************************************************)
MaxDist == 2
MaxZ == 1

\* the objects of the scene in the order ao_targets_iter goes through them
Order == <<"a", "b", "c">>
SceneObjects == {"a", "b", "c", "dup"}

\* line 210: the amount added to z for the n-th entry of original_matrices
Offset(ao_dist, n) == ao_dist * 3 * n

\* __enter__, lines 207-210, from the i-th object of the iteration on
RECURSIVE Explode(_, _, _, _)
Explode(scene, original_matrices, ao_dist, i) ==
    IF i > Len(Order) THEN [scene |-> scene, original_matrices |-> original_matrices]
    ELSE LET obj == Order[i]
         IN  IF scene[obj].target /\ scene[obj].listed
             THEN LET saved == Append(original_matrices, [obj |-> obj, z |-> scene[obj].z])
                  IN  Explode([scene EXCEPT ![obj].z = @ + Offset(ao_dist, Len(saved))],
                              saved, ao_dist, i + 1)
             ELSE Explode(scene, original_matrices, ao_dist, i + 1)

\* __exit__, lines 213-214, from the i-th entry of the dict on
RECURSIVE Restore(_, _, _)
Restore(scene, original_matrices, i) ==
    IF i > Len(original_matrices) THEN scene
    ELSE Restore([scene EXCEPT ![original_matrices[i].obj].z = original_matrices[i].z],
                 original_matrices, i + 1)

InitBake ==
    /\ \E z \in [1..Len(Order) -> 0..MaxZ],
          target \in [1..Len(Order) -> BOOLEAN],
          listed \in [1..Len(Order) -> BOOLEAN] :
         tree = [o \in SceneObjects |->
                    IF o = "dup"
                    THEN [z |-> 0, target |-> FALSE, listed |-> FALSE, exists |-> FALSE]
                    ELSE LET i == CHOOSE k \in 1..Len(Order) : Order[k] = o
                         IN  [z |-> z[i], target |-> target[i], listed |-> listed[i],
                              exists |-> TRUE]]
    /\ \E ao_dist \in 0..MaxDist :
         data = [ao_dist |-> ao_dist, original_matrices |-> << >>, i |-> 0]
    /\ s3o = NoS3O
    /\ err = NoError
    /\ last = NoOp
    /\ prev = NoOp
    /\ pre = tree

\* with ExplodeObjectsForBake(context): (line 376)
Enter ==
    /\ last = NoOp
    /\ LET r == Explode(tree, << >>, data.ao_dist, 1)
       IN  /\ tree' = r.scene
           /\ data' = [data EXCEPT !.original_matrices = r.original_matrices, !.i = 1]
    /\ pre' = tree
    /\ prev' = last
    /\ last' = [op |-> "__enter__", piece |-> 0]
    /\ UNCHANGED <<s3o, err>>

InBlock == last.op \in {"__enter__", "bake"} /\ err = NoError

\* one turn of the loop of lines 377-451 for a bake target: the object is
\* duplicated, the duplicate is baked and removed
Bake ==
    /\ InBlock
    /\ data.i <= Len(Order)
    /\ data' = [data EXCEPT !.i = @ + 1]
    /\ prev' = last
    /\ last' = [op |-> "bake", piece |-> data.i]
    /\ UNCHANGED <<tree, s3o, err, pre>>

\* a turn of the loop raises after the duplicate was made: the duplicate
\* stays in the scene
BakeRaises ==
    /\ InBlock
    /\ data.i <= Len(Order)
    /\ tree[Order[data.i]].target
    /\ tree' = [tree EXCEPT !["dup"] = [z |-> tree[Order[data.i]].z, target |-> FALSE,
                                         listed |-> FALSE, exists |-> TRUE]]
    /\ err' = "RuntimeError"
    /\ prev' = last
    /\ last' = [op |-> "bake", piece |-> data.i]
    /\ UNCHANGED <<s3o, data, pre>>

\* the with-block is left, at its end or by the exception
Exit ==
    /\ last.op \in {"__enter__", "bake"}
    /\ err # NoError \/ data.i > Len(Order)
    /\ tree' = Restore(tree, data.original_matrices, 1)
    /\ prev' = last
    /\ last' = [op |-> "__exit__", piece |-> 0]
    /\ UNCHANGED <<s3o, data, err, pre>>

NextBake == Enter \/ Bake \/ BakeRaises \/ Exit

SpecBake == InitBake /\ [][NextBake]_vars

\* the objects __enter__ has moved
Exploded_Objects == {data.original_matrices[n].obj : n \in 1..Len(data.original_matrices)}

\* how far along z an object is from where it was before __enter__
MovedBy(o) == tree[o].z - pre[o].z

\* the objects before o in the iteration that are listed bake targets, o
\* itself counted
RankOf(o) ==
    LET i == CHOOSE k \in 1..Len(Order) : Order[k] = o
    IN  Cardinality({k \in 1..i : pre[Order[k]].target /\ pre[Order[k]].listed})

\* C30: on entry only the bake targets listed in objects_to_explode are
\* moved, the k-th of them by ao_dist * 3 * k along z, no two by the same
\* amount; when the with-block is left, at its end or by an exception of
\* the bake, every object of the scene has the world matrix it had before
\* entry.
C30_ExplodeRestoresScene ==
    /\ last.op = "__enter__"
         => /\ \A o \in SceneObjects \ {"dup"} :
                 MovedBy(o) = IF pre[o].target /\ pre[o].listed
                              THEN data.ao_dist * 3 * RankOf(o) ELSE 0
            /\ \A o1 \in Exploded_Objects, o2 \in Exploded_Objects :
                 o1 # o2 => MovedBy(o1) # MovedBy(o2)
    /\ last.op = "__exit__"
         => \A o \in SceneObjects \ {"dup"} : tree[o].z = pre[o].z

====
